---- MODULE Spec2Model ----
(***************************************************************************)
(* Model of the two browser tools of the repository:                       *)
(*   - the crop editor of the watermark tool (src/watermark/app.js),       *)
(*   - the PDF compression / image-to-PDF jobs (src/app.js).               *)
(* Coordinates are JavaScript numbers in the source; the model computes    *)
(* them exactly, as reduced fractions <<numerator, denominator>>.          *)
(***************************************************************************)
EXTENDS Integers, Sequences, FiniteSets, TLC

(***************************************************************************)
(* Bounds of the model: how often the environment issues each request.     *)
(***************************************************************************)
\* pointer-downs that start a drag
MaxDrags == 1
\* clicks on a ratio button
MaxRatioSets == 1
\* applyCrop calls that start a crop
MaxCrops == 1
\* pointer-downs that start a drag, where a drag is restarted (SpecRedrag)
MaxRedrags == 2
\* image files offered to the image-to-PDF tool
MaxImages == 2
\* pages of one output document
MaxSheets == 2
\* files the watermark tool accepts
MaxSelects == 2
\* parts of a file name
MaxNameLen == 4
\* previews opened
MaxOpens == 2
\* presses of the previous-page and next-page controls
MaxNavs == 1

(***************************************************************************)
(* Exact arithmetic on fractions <<n, d>> with d > 0 and gcd(n, d) = 1.    *)
(***************************************************************************)
Abs(n) == IF n < 0 THEN -n ELSE n

RECURSIVE GCD(_, _)
GCD(a, b) == IF b = 0 THEN a ELSE GCD(b, a % b)

Norm(n, d) ==
    LET s == IF d < 0 THEN -1 ELSE 1
        g == GCD(Abs(n), Abs(d))
    IN  <<(s * n) \div g, (s * d) \div g>>

R(n) == <<n, 1>>
RAdd(a, b) ==
    LET g == GCD(a[2], b[2])
    IN  Norm(a[1] * (b[2] \div g) + b[1] * (a[2] \div g), (a[2] \div g) * b[2])
RNeg(a) == <<-a[1], a[2]>>
RSub(a, b) == RAdd(a, RNeg(b))
RMul(a, b) ==
    LET g1 == GCD(Abs(a[1]), b[2])
        g2 == GCD(Abs(b[1]), a[2])
    IN  Norm((a[1] \div g1) * (b[1] \div g2), (a[2] \div g2) * (b[2] \div g1))
\* a / b for b # 0
RDiv(a, b) == RMul(a, IF b[1] < 0 THEN <<-b[2], -b[1]>> ELSE <<b[2], b[1]>>)
RLt(a, b) ==
    LET g == GCD(a[2], b[2])
    IN  a[1] * (b[2] \div g) < b[1] * (a[2] \div g)
RLe(a, b) == a = b \/ RLt(a, b)
RGt(a, b) == RLt(b, a)
RGe(a, b) == RLe(b, a)
RMax(a, b) == IF RLt(a, b) THEN b ELSE a
RMin(a, b) == IF RLt(b, a) THEN b ELSE a
\* the integer a canvas size attribute keeps of a non-negative number
Trunc(a) == a[1] \div a[2]

(***************************************************************************)
(* Inputs of the crop editor.                                              *)
(***************************************************************************)
\* null (state.crop.aspectRatio, state.originalImage): not a number
Null == <<0, 0>>
NoImage == [width |-> 0, height |-> 0]

\* decoded images (natural width and height in pixels) a file can load as
Images ==
    { [width |-> 4000, height |-> 3000],
      [width |-> 50, height |-> 50],
      [width |-> 45, height |-> 45] }

\* window.innerWidth * 0.7 and window.innerHeight * 0.5 when the modal opens
Viewports == { [maxWidth |-> R(800), maxHeight |-> R(600)] }

\* data-ratio of the ratio buttons, "a:b" as <<a, b>>
RatioButtons == { <<1, 1>>, <<16, 9>> }

Handles == {"nw", "n", "ne", "e", "se", "s", "sw", "w"}
Corners == {"nw", "ne", "se", "sw"}
\* what a pointer-down can hit: the crop box, a handle, anything else
Targets == {"box", "other"} \cup Handles

\* <<e.clientX, e.clientY>> of a pointer-down, and of a pointer-move
DownPoints == { <<30, 30>> }
MovePoints == { <<30, 30>>, <<60, 30>>, <<30, 60>>, <<60, 60>>, <<0, 0>>, <<60, 0>> }

\* dragType.includes(letter)
Includes(dragType, letter) ==
    CASE letter = "e" -> dragType \in {"ne", "e", "se", "move"}
      [] letter = "w" -> dragType \in {"nw", "w", "sw"}
      [] letter = "s" -> dragType \in {"se", "s", "sw"}
      [] letter = "n" -> dragType \in {"nw", "n", "ne"}

(***************************************************************************)
(* The crop editor's functions, on the record state.crop.                  *)
(***************************************************************************)
InitialCrop ==
    [x |-> R(0), y |-> R(0), width |-> R(0), height |-> R(0), scale |-> R(1),
     aspectRatio |-> Null, isDragging |-> FALSE, dragType |-> "null",
     startMouseX |-> R(0), startMouseY |-> R(0), startX |-> R(0), startY |-> R(0),
     startWidth |-> R(0), startHeight |-> R(0),
     canvasWidth |-> R(0), canvasHeight |-> R(0)]

\* updateCropBox: elements.applyCrop.disabled
ApplyDisabled(c) == RLt(c.width, R(20)) \/ RLt(c.height, R(20))

\* w / h > r as JavaScript evaluates it: w / 0 is Infinity, -Infinity or NaN
RatioGreater(w, h, r) ==
    IF h = R(0) THEN RGt(w, R(0)) ELSE RGt(RDiv(w, h), r)

ConstrainCropBox(c) ==
    LET x1 == RMax(R(0), RMin(c.x, RSub(c.canvasWidth, c.width)))
        y1 == RMax(R(0), RMin(c.y, RSub(c.canvasHeight, c.height)))
        w1 == RMax(R(20), RMin(c.width, RSub(c.canvasWidth, x1)))
        h1 == RMax(R(20), RMin(c.height, RSub(c.canvasHeight, y1)))
    IN  [c EXCEPT !.x = x1, !.y = y1, !.width = w1, !.height = h1]

\* the crop record openCropModal leaves for image img and viewport maximum vp
OpenCrop(c, img, vp) ==
    LET scale == RMin(RMin(RDiv(vp.maxWidth, R(img.width)),
                           RDiv(vp.maxHeight, R(img.height))), R(1))
        cw == RMul(R(img.width), scale)
        ch == RMul(R(img.height), scale)
        padding == 20
    IN  [c EXCEPT !.scale = scale, !.canvasWidth = cw, !.canvasHeight = ch,
                  !.x = R(padding), !.y = R(padding),
                  \* canvas.width and canvas.height are integer attributes
                  !.width = R(Trunc(cw) - padding * 2),
                  !.height = R(Trunc(ch) - padding * 2),
                  !.aspectRatio = Null]

\* a variant of SetAspect in which "free" puts the region back to its seed
SetAspectFreeReseeds(c, ratio) ==
    LET r == IF ratio = Null THEN Null ELSE RDiv(R(ratio[1]), R(ratio[2]))
        c1 == [c EXCEPT !.aspectRatio = r]
    IN  IF r = Null \/ r = R(0)
        THEN [c1 EXCEPT !.x = R(20), !.y = R(20),
                        !.width = RSub(c.canvasWidth, R(40)),
                        !.height = RSub(c.canvasHeight, R(40))]
        ELSE IF RatioGreater(c1.width, c1.height, r)
             THEN ConstrainCropBox([c1 EXCEPT !.width = RMul(c1.height, r)])
             ELSE ConstrainCropBox([c1 EXCEPT !.height = RDiv(c1.width, r)])

\* setAspectRatio(ratio): ratio is "free" (Null here) or a button's <<a, b>>
SetAspect(c, ratio) ==
    LET r == IF ratio = Null THEN Null ELSE RDiv(R(ratio[1]), R(ratio[2]))
        c1 == [c EXCEPT !.aspectRatio = r]
    IN  IF r = Null \/ r = R(0)
        THEN c1
        ELSE IF RatioGreater(c1.width, c1.height, r)
             THEN ConstrainCropBox([c1 EXCEPT !.width = RMul(c1.height, r)])
             ELSE ConstrainCropBox([c1 EXCEPT !.height = RDiv(c1.width, r)])

\* a variant of MouseDown that keeps the width and height of an older snapshot
MouseDownStaleSize(c, target, mx, my) ==
    IF target = "other"
    THEN c
    ELSE [c EXCEPT !.dragType = IF target = "box" THEN "move" ELSE target,
                   !.isDragging = TRUE,
                   !.startMouseX = R(mx), !.startMouseY = R(my),
                   !.startX = c.x, !.startY = c.y]

\* handleCropMouseDown with e.target = target and e.clientX, e.clientY = mx, my
MouseDown(c, target, mx, my) ==
    IF target = "other"
    THEN c
    ELSE [c EXCEPT !.dragType = IF target = "box" THEN "move" ELSE target,
                   !.isDragging = TRUE,
                   !.startMouseX = R(mx), !.startMouseY = R(my),
                   !.startX = c.x, !.startY = c.y,
                   !.startWidth = c.width, !.startHeight = c.height]

\* the candidate newX, newY, newW, newH of a resize before the ratio is applied
RawCandidate(c, dx, dy) ==
    LET d == c.dragType
        w0 == IF Includes(d, "e") THEN RMax(R(20), RAdd(c.startWidth, dx))
                                  ELSE c.startWidth
        h0 == IF Includes(d, "s") THEN RMax(R(20), RAdd(c.startHeight, dy))
                                  ELSE c.startHeight
    IN  [x |-> IF Includes(d, "w") THEN RAdd(c.startX, dx) ELSE c.startX,
         y |-> IF Includes(d, "n") THEN RAdd(c.startY, dy) ELSE c.startY,
         w |-> IF Includes(d, "w") THEN RSub(c.startWidth, dx) ELSE w0,
         h |-> IF Includes(d, "n") THEN RSub(c.startHeight, dy) ELSE h0]

\* the candidate after "Apply aspect ratio constraint"
Candidate(c, dx, dy) ==
    LET k == RawCandidate(c, dx, dy)
        r == c.aspectRatio
        d == c.dragType
    IN  IF r = Null \/ r = R(0)
        THEN k
        ELSE IF d \in {"e", "w"}
             THEN [k EXCEPT !.h = RDiv(k.w, r)]
             ELSE IF d \in {"n", "s"}
                  THEN [k EXCEPT !.w = RMul(k.h, r)]
                  ELSE IF RatioGreater(k.w, k.h, r)
                       THEN [k EXCEPT !.w = RMul(k.h, r)]
                       ELSE [k EXCEPT !.h = RDiv(k.w, r)]

\* a variant of AcceptX that accepts a width only together with the height
AcceptBoth(c, k) ==
    /\ RGe(k.w, R(20)) /\ RGe(k.x, R(0)) /\ RLe(RAdd(k.x, k.w), c.canvasWidth)
    /\ RGe(k.h, R(20)) /\ RGe(k.y, R(0)) /\ RLe(RAdd(k.y, k.h), c.canvasHeight)

\* "Ensure minimum size and bounds", per axis
AcceptX(c, k) ==
    RGe(k.w, R(20)) /\ RGe(k.x, R(0)) /\ RLe(RAdd(k.x, k.w), c.canvasWidth)
AcceptY(c, k) ==
    RGe(k.h, R(20)) /\ RGe(k.y, R(0)) /\ RLe(RAdd(k.y, k.h), c.canvasHeight)

Resize(c, k) ==
    LET c1 == IF AcceptX(c, k) THEN [c EXCEPT !.x = k.x, !.width = k.w] ELSE c
    IN  IF AcceptY(c, k) THEN [c1 EXCEPT !.y = k.y, !.height = k.h] ELSE c1

\* a variant of Translate that clamps the origin at 0 only
TranslateNoUpperClamp(c, dx, dy) ==
    [c EXCEPT !.x = RMax(R(0), RAdd(c.startX, dx)),
              !.y = RMax(R(0), RAdd(c.startY, dy))]

Translate(c, dx, dy) ==
    LET x1 == RMax(R(0), RMin(RAdd(c.startX, dx), RSub(c.canvasWidth, c.width)))
        y1 == RMax(R(0), RMin(RAdd(c.startY, dy), RSub(c.canvasHeight, c.height)))
    IN  [c EXCEPT !.x = x1, !.y = y1]

\* handleCropMouseMove with e.clientX, e.clientY = mx, my
MouseMove(c, mx, my) ==
    LET dx == RSub(R(mx), c.startMouseX)
        dy == RSub(R(my), c.startMouseY)
    IN  IF ~c.isDragging
        THEN c
        ELSE IF c.dragType = "move"
             THEN Translate(c, dx, dy)
             ELSE Resize(c, Candidate(c, dx, dy))

\* a variant of MouseUp that leaves isDragging set
MouseUpStillDragging(c) == [c EXCEPT !.dragType = "null"]

MouseUp(c) == [c EXCEPT !.isDragging = FALSE, !.dragType = "null"]

\* the crop command of applyCrop, in natural pixels
CropCommand(c) ==
    [left |-> RDiv(c.x, c.scale), top |-> RDiv(c.y, c.scale),
     width |-> RDiv(c.width, c.scale), height |-> RDiv(c.height, c.scale)]

\* a variant of TooSmall that also refuses a natural size of exactly 10
TooSmallInclusive(c) ==
    RLe(CropCommand(c).width, R(10)) \/ RLe(CropCommand(c).height, R(10))

\* a variant of TooSmall whose floor is 4000 natural pixels
TooSmallFloor4000(c) ==
    RLt(CropCommand(c).width, R(4000)) \/ RLt(CropCommand(c).height, R(4000))

\* applyCrop returns early
TooSmall(c) ==
    RLt(CropCommand(c).width, R(10)) \/ RLt(CropCommand(c).height, R(10))

\* the image the temporary canvas of applyCrop encodes
CroppedImage(cmd) == [width |-> Trunc(cmd.width), height |-> Trunc(cmd.height)]

(***************************************************************************)
(* Files offered to the watermark tool.  A file name is the sequence of    *)
(* its parts: dots and the pieces of text between them.                    *)
(***************************************************************************)
\* String.prototype.toLowerCase on one part of a name
LowerPart(part) ==
    CASE part = "PDF" -> "pdf"
      [] part = "HEIC" -> "heic"
      [] part = "A" -> "a"
      [] OTHER -> part
ToLowerCase(name) == [k \in 1..Len(name) |-> LowerPart(name[k])]
\* String.prototype.endsWith
EndsWith(name, ext) ==
    /\ Len(name) >= Len(ext)
    /\ SubSeq(name, Len(name) - Len(ext) + 1, Len(name)) = ext

\* the argument of handleFileSelect when no file came with the event
MissingFile == [name |-> <<>>, type |-> "undefined", img |-> NoImage]
\* a PNG, a HEIC file the browser knows the type of, one it reports without
\* a type, and a text file
WatermarkFiles ==
    { [name |-> <<"a", ".", "png">>, type |-> "image/png",
       img |-> [width |-> 4000, height |-> 3000]],
      [name |-> <<"b", ".", "heic">>, type |-> "image/heic",
       img |-> [width |-> 50, height |-> 50]],
      [name |-> <<"c", ".", "HEIC">>, type |-> "",
       img |-> [width |-> 45, height |-> 45]],
      [name |-> <<"a", ".", "txt">>, type |-> "text/plain", img |-> NoImage] }

\* file.type.startsWith('image/'), on the types of these files
IsImage(f) == f.type \in {"image/png", "image/heic", "image/heif"}
isHeicFile(f) ==
    \/ f.type \in {"image/heic", "image/heif"}
    \/ \E ext \in {<<".", "heic">>, <<".", "heif">>} : EndsWith(ToLowerCase(f.name), ext)

(***************************************************************************)
(* The tiled watermark (src/watermark/app.js).  A rotation is given by the *)
(* cosine and the sine of its angle, for angles at which both are          *)
(* fractions; the diagonal is given by its square.                         *)
(***************************************************************************)
Rotations ==
    { [cos |-> R(1), sin |-> R(0)], [cos |-> R(0), sin |-> R(1)],
      [cos |-> R(-1), sin |-> R(0)], [cos |-> R(0), sin |-> R(-1)],
      [cos |-> RDiv(R(3), R(5)), sin |-> RDiv(R(4), R(5))],
      [cos |-> RDiv(R(4), R(5)), sin |-> RDiv(R(-3), R(5))],
      [cos |-> RDiv(R(-3), R(5)), sin |-> RDiv(R(4), R(5))],
      [cos |-> RDiv(R(-4), R(5)), sin |-> RDiv(R(-3), R(5))],
      [cos |-> RDiv(R(5), R(13)), sin |-> RDiv(R(12), R(13))],
      [cos |-> RDiv(R(12), R(13)), sin |-> RDiv(R(-5), R(13))],
      [cos |-> RDiv(R(-12), R(13)), sin |-> RDiv(R(5), R(13))],
      [cos |-> RDiv(R(7), R(25)), sin |-> RDiv(R(-24), R(25))] }
\* the canvases renderPreview sets up: canvas.width, canvas.height
TiledCanvases ==
    { [width |-> 40, height |-> 30], [width |-> 10, height |-> 30],
      [width |-> 5, height |-> 5] }
\* places of the image rectangle, as parts of its width and height
Places == {R(0), RDiv(R(1), R(2)), R(1)}

\* a variant of DiagonalSq that takes the width for the diagonal
WidthSq(width, height) == width * width

\* the square of diagonal = Math.sqrt(width * width + height * height)
DiagonalSq(width, height) == width * width + height * height

\* ctx.translate(width / 2, height / 2); ctx.rotate(angle): the coordinates
\* at which the loops of renderTiledWatermark would have to draw to reach
\* the pixel (px, py) of the canvas
ToTileSpace(px, py, width, height, rotation) ==
    LET dx == RSub(px, RDiv(R(width), R(2)))
        dy == RSub(py, RDiv(R(height), R(2)))
    IN  [x |-> RAdd(RMul(rotation.cos, dx), RMul(rotation.sin, dy)),
         y |-> RSub(RMul(rotation.cos, dy), RMul(rotation.sin, dx))]

\* for (y = -diagonal; y < diagonal; ...) for (x = -diagonal; x < diagonal; ...):
\* the coordinates the loops range over
InTiledSquare(at, diagonalSq) ==
    /\ RLe(RMul(at.x, at.x), R(diagonalSq))
    /\ RLe(RMul(at.y, at.y), R(diagonalSq))

\* canvases whose diagonal is a whole number, for the loops
LoopCanvases == { [width |-> 4, height |-> 3], [width |-> 8, height |-> 6] }
\* state.settings.fontSize, ctx.measureText(text).width and
\* state.settings.tileSpacing
FontSizes == {0, 1, 2}
TextWidths == {0, 4}
TileSpacings == {0, 50, 100}

\* Math.sqrt(width * width + height * height), where it is a whole number
Diagonal(width, height) ==
    CHOOSE d \in 0 .. width + height : d * d = DiagonalSq(width, height)

\* The loop variables x and y and the spacing are kept in units of 1/2000
\* pixel: for whole text widths, font sizes and tile spacings every value
\* the loops compute is a whole number of these units.
\* spacing = Math.max(textWidth * 1.5, fontSize * 3) * (tileSpacing / 100)
Spacing(textWidth, fontSize, tileSpacing) ==
    LET widthPart == textWidth * 3000
        fontPart == fontSize * 3 * 2000
    IN  ((IF widthPart > fontPart THEN widthPart ELSE fontPart) * tileSpacing) \div 100

\* one ctx.fillText(text, x, y) of the loops, then x += spacing and the test
\* of the inner loop, then y += spacing * 0.7 and the test of the outer loop
NextTile(t) ==
    LET d == 2000 * Diagonal(t.width, t.height)
        x1 == t.x + t.spacing
        y1 == t.y + (t.spacing * 7) \div 10
    IN  IF x1 < d THEN [t EXCEPT !.x = x1]
        ELSE IF y1 < d THEN [t EXCEPT !.x = -d, !.y = y1]
        ELSE [t EXCEPT !.pc = "done"]

NoTiling ==
    [width |-> 0, height |-> 0, rotation |-> [cos |-> R(1), sin |-> R(0)],
     diagonalSq |-> 0, pixel |-> <<R(0), R(0)>>, at |-> [x |-> R(0), y |-> R(0)],
     covered |-> FALSE,
     spacing |-> 0, x |-> 0, y |-> 0, pc |-> "none"]

(***************************************************************************)
(* Download names.  A name is the sequence of its parts, as above.         *)
(***************************************************************************)
NameParts == {"a", ".", "pdf", "PDF"}
RECURSIVE NamesOfLength(_)
NamesOfLength(n) ==
    IF n = 0 THEN {<<>>}
    ELSE {Append(name, part) : name \in NamesOfLength(n - 1), part \in NameParts}
FileNames == UNION {NamesOfLength(n) : n \in 1..MaxNameLen}

\* String.prototype.replace('.pdf', ''): the first '.pdf' of the name is
\* taken out
ReplaceDotPdf(name) ==
    LET hits == {k \in 1 .. Len(name) - 1 : name[k] = "." /\ name[k + 1] = "pdf"}
    IN  IF hits = {} THEN name
        ELSE LET k == CHOOSE h \in hits : \A g \in hits : h <= g
             IN  SubSeq(name, 1, k - 1) \o SubSeq(name, k + 2, Len(name))

\* String.prototype.replace(/\.[^.]+$/, ''): a dot followed by text without
\* a dot, at the end of the name, is taken out
ReplaceExtension(name) ==
    LET dots == {k \in 1 .. Len(name) - 1 :
                    /\ name[k] = "."
                    /\ \A j \in k + 1 .. Len(name) : name[j] # "."}
    IN  IF dots = {} THEN name
        ELSE LET k == CHOOSE d \in dots : TRUE
             IN  SubSeq(name, 1, k - 1)

\* `${originalName}_compressed.pdf` and `${originalName}_watermarked.png`
CompressedName(name) == ReplaceDotPdf(name) \o <<"_compressed", ".", "pdf">>
WatermarkedName(name) == ReplaceExtension(name) \o <<"_watermarked", ".", "png">>

NoDownload == [tool |-> "none", from |-> <<>>, name |-> <<>>]

(***************************************************************************)
(* Inputs of the PDF tool.                                                 *)
(***************************************************************************)
NoFile == [id |-> "none", type |-> "", size |-> 0, pages |-> 0]
\* src: the file a compression run read (NoFile for the image-to-PDF job)
NoBlob == [pages |-> <<>>, of |-> -1, src |-> NoFile]

MaxFileSize == 100 * 1024 * 1024

\* the files a user can select: two PDFs (one of exactly 100 MB), an oversize
\* PDF and a file that is no PDF
PdfFiles ==
    { [id |-> "a.pdf", type |-> "application/pdf", size |-> MaxFileSize, pages |-> 2],
      [id |-> "b.pdf", type |-> "application/pdf", size |-> 1000, pages |-> 1],
      [id |-> "big.pdf", type |-> "application/pdf", size |-> MaxFileSize + 1, pages |-> 1],
      [id |-> "c.png", type |-> "image/png", size |-> 1000, pages |-> 0] }

\* elements.compressionMode.value
Modes == {"lossless", "lossy"}
\* the size of an output blob
OutSizes == {500, 2000}
\* image files are numbered; Undefined is the JavaScript value undefined
ImageIds == 1..MaxImages
Undefined == 0

\* the sections as the page shows them when it is loaded
InitialView ==
    [dropZone |-> "shown", fileInfo |-> "hidden", settingsPanel |-> "hidden",
     progressSection |-> "hidden", resultsSection |-> "hidden",
     savingsBadge |-> "none",
     imageProgressSection |-> "hidden", imageResultsSection |-> "hidden"]

\* Number.prototype.toFixed(0) of the fraction a: the nearest whole number,
\* a half rounded away from zero
ToFixed0(a) ==
    LET twice == 2 * Abs(a[1]) + a[2]
        n == twice \div (2 * a[2])
    IN  IF a[1] < 0 THEN -n ELSE n

\* showResults: savings = ((1 - compressedSize / originalSize) * 100).toFixed(0)
\* and the badge chosen by savings > 0; with originalSize = 0 the quotient is
\* Infinity or NaN and the comparison is false
SavingsBadge(size, original) ==
    IF original = 0 THEN "larger"
    ELSE IF ToFixed0(RMul(RSub(R(1), RDiv(R(size), R(original))), R(100))) > 0
    THEN "smaller" ELSE "larger"

\* sizes in bytes of a file and of its output, some of them close together
ResultSizes ==
    {1, 2, 199, 200, 201, 994, 995, 996, 999, 1000, 1001, 1004, 1005, 1006, 2000}
\* the documents a preview is opened on: state.compressedBlob or
\* state.imagePdfBlob, of three pages and of one page
PreviewBlobs ==
    { [pages |-> <<1, 2, 3>>, of |-> 3, src |-> NoFile],
      [pages |-> <<1>>, of |-> 1, src |-> NoFile] }
\* what elements.previewCanvas shows: a page of a document, or (page 0)
\* nothing whole
NoPicture == [doc |-> NoBlob, page |-> 0]

\* for (pageNum = 1; pageNum <= numPages; pageNum++)
MorePages(pageNum, numPages) == pageNum <= numPages
\* a variant of MoreImages that leaves the loop after the first image
NoMoreImages(i, imgs) == i < 1

\* for (i = 0; i < state.images.length; i++)
MoreImages(i, imgs) == i < Len(imgs)
\* a variant of CreateRejected without the test of state.isProcessing
CreateRejectedWhenEmpty(imgs, busy) == Len(imgs) = 0

\* the early return of compressPDF and of createPdfFromImages
CompressRejected(f, busy) == f = NoFile \/ busy
CreateRejected(imgs, busy) == Len(imgs) = 0 \/ busy

\* array.splice(index, 1) and array.splice(index, 0, item), index from 0
SpliceOut(a, index) ==
    IF index >= Len(a) THEN a
    ELSE SubSeq(a, 1, index) \o SubSeq(a, index + 2, Len(a))
SpliceIn(a, index, item) ==
    IF index >= Len(a) THEN Append(a, item)
    ELSE SubSeq(a, 1, index) \o <<item>> \o SubSeq(a, index + 1, Len(a))
\* handleImageDropReorder on the list
Reorder(a, from, to) ==
    LET removed == IF from < Len(a) THEN a[from + 1] ELSE Undefined
    IN  SpliceIn(SpliceOut(a, from), to, removed)

(***************************************************************************)
(* Page geometry of the output documents (src/app.js): the sheet each      *)
(* iteration of a job's loop adds to jspdfDoc, and the image it carries.   *)
(***************************************************************************)
\* elements.dpiSelect.value
DpiChoices == {72, 150, 300}
\* elements.qualitySlider.value and elements.imgQualitySlider.value
QualityChoices == {50, 100}
\* elements.pageSizeSelect.value
PageSizeChoices == {"fit", "a4", "letter", "legal"}
\* the pages of a source document, in points: A4 upright and turned, letter
SourcePages ==
    { [width |-> R(595), height |-> R(842)],
      [width |-> R(842), height |-> R(595)],
      [width |-> R(612), height |-> R(792)] }
\* the natural sizes of the listed images
SourceImages ==
    { [width |-> 4000, height |-> 3000],
      [width |-> 1000, height |-> 3000],
      [width |-> 190, height |-> 277],
      [width |-> 3000, height |-> 100],
      [width |-> 1, height |-> 1] }

MmPerInch == RDiv(R(254), R(10))
\* page dimensions in mm
pageSizes ==
    [a4 |-> [width |-> R(210), height |-> R(297)],
     letter |-> [width |-> RDiv(R(2159), R(10)), height |-> RDiv(R(2794), R(10))],
     legal |-> [width |-> RDiv(R(2159), R(10)), height |-> RDiv(R(3556), R(10))]]
margin == 10
maxDim == 2000

\* parseInt(slider.value) / 100
Quality(value) == RDiv(R(value), R(100))
\* page.getViewport({ scale })
GetViewport(page, scale) ==
    [width |-> RMul(page.width, scale), height |-> RMul(page.height, scale)]
\* widthMM > heightMM ? 'landscape' : 'portrait'
Orientation(width, height) == IF RGt(width, height) THEN "landscape" ELSE "portrait"
\* a canvas takes whole pixels
Canvas(width, height) == [width |-> Trunc(width), height |-> Trunc(height)]

\* the page one iteration adds: new jsPDF({orientation, format}) or addPage,
\* then addImage(data, 'JPEG', x, y, width, height); src is the page or image
\* it was made from, canvas and quality describe the JPEG
Sheet(src, width, height, canvas, quality, image) ==
    [src |-> src, width |-> width, height |-> height,
     orientation |-> Orientation(width, height),
     canvas |-> canvas, quality |-> quality, image |-> image]

\* the body of the loop of compressLossy
CompressLossySheet(page, dpi, quality) ==
    LET renderScale == RDiv(R(dpi), R(72))
        originalViewport == GetViewport(page, R(1))
        renderViewport == GetViewport(page, renderScale)
        widthPt == originalViewport.width
        heightPt == originalViewport.height
        widthMM == RMul(RDiv(widthPt, R(72)), MmPerInch)
        heightMM == RMul(RDiv(heightPt, R(72)), MmPerInch)
    IN  Sheet(page, widthMM, heightMM,
              Canvas(renderViewport.width, renderViewport.height), quality,
              [x |-> R(0), y |-> R(0), width |-> widthMM, height |-> heightMM])

\* the body of the loop of the single-mode compressPDF
CompressPDFSheet(page, dpi, quality) ==
    LET baseScale == RDiv(R(dpi), R(150))
        compressionFactor == RDiv(R(7), R(10))
        scale == RMul(baseScale, compressionFactor)
        viewport == GetViewport(page, scale)
        widthMM == RMul(RDiv(viewport.width, R(dpi)), MmPerInch)
        heightMM == RMul(RDiv(viewport.height, R(dpi)), MmPerInch)
    IN  Sheet(page, widthMM, heightMM,
              Canvas(viewport.width, viewport.height), quality,
              [x |-> R(0), y |-> R(0), width |-> widthMM, height |-> heightMM])

\* a variant of CompressImage that draws every image at its natural size
CompressImageUncapped(img) == Canvas(R(img.width), R(img.height))

\* compressImage: the canvas the JPEG of an image is drawn on
CompressImage(img) ==
    IF img.width > maxDim \/ img.height > maxDim
    THEN IF img.width > img.height
         THEN Canvas(R(maxDim), RMul(RDiv(R(img.height), R(img.width)), R(maxDim)))
         ELSE Canvas(RMul(RDiv(R(img.width), R(img.height)), R(maxDim)), R(maxDim))
    ELSE Canvas(R(img.width), R(img.height))

\* pageSize === 'fit': the page takes the size of the image at 96 DPI
FitPage(img) ==
    LET pageWidth == RMul(RDiv(R(img.width), R(96)), MmPerInch)
        pageHeight == RMul(RDiv(R(img.height), R(96)), MmPerInch)
    IN  [pageWidth |-> pageWidth, pageHeight |-> pageHeight,
         image |-> [x |-> R(0), y |-> R(0), width |-> pageWidth, height |-> pageHeight]]

\* a variant of FitImage that puts the image in the top left corner of the
\* margin box
FitImageTopLeft(pg, img) ==
    LET availWidth == RSub(pg.width, R(margin * 2))
        availHeight == RSub(pg.height, R(margin * 2))
        imgRatio == RDiv(R(img.width), R(img.height))
        availRatio == RDiv(availWidth, availHeight)
        imgFinalWidth == IF RGt(imgRatio, availRatio) THEN availWidth
                         ELSE RMul(availHeight, imgRatio)
        imgFinalHeight == IF RGt(imgRatio, availRatio) THEN RDiv(availWidth, imgRatio)
                          ELSE availHeight
    IN  [pageWidth |-> pg.width, pageHeight |-> pg.height,
         image |-> [x |-> R(margin), y |-> R(margin),
                    width |-> imgFinalWidth, height |-> imgFinalHeight]]

\* a named page size: the image is fitted to the page with margins
FitImage(pg, img) ==
    LET pageWidth == pg.width
        pageHeight == pg.height
        availWidth == RSub(pageWidth, R(margin * 2))
        availHeight == RSub(pageHeight, R(margin * 2))
        imgRatio == RDiv(R(img.width), R(img.height))
        availRatio == RDiv(availWidth, availHeight)
        imgFinalWidth == IF RGt(imgRatio, availRatio) THEN availWidth
                         ELSE RMul(availHeight, imgRatio)
        imgFinalHeight == IF RGt(imgRatio, availRatio) THEN RDiv(availWidth, imgRatio)
                          ELSE availHeight
        imgX == RAdd(R(margin), RDiv(RSub(availWidth, imgFinalWidth), R(2)))
        imgY == RAdd(R(margin), RDiv(RSub(availHeight, imgFinalHeight), R(2)))
    IN  [pageWidth |-> pageWidth, pageHeight |-> pageHeight,
         image |-> [x |-> imgX, y |-> imgY,
                    width |-> imgFinalWidth, height |-> imgFinalHeight]]

\* the body of the loop of createPdfFromImages
CreatePdfSheet(img, pageSize, quality) ==
    LET placed == IF pageSize = "fit" THEN FitPage(img)
                  ELSE FitImage(pageSizes[pageSize], img)
    IN  Sheet(img, placed.pageWidth, placed.pageHeight, CompressImage(img),
              quality, placed.image)

\* no job has read the controls yet
NoSettings == [routine |-> "none", dpi |-> 0, quality |-> R(0), pageSize |-> "none"]

(***************************************************************************)
(* State.                                                                  *)
(***************************************************************************)
VARIABLES
    \* the watermark tool (src/watermark/app.js)
    originalImage,  \* state.originalImage, or NoImage
    crop,           \* state.crop
    modalOpen,      \* the crop modal is shown (no 'hidden' class)
    applyDisabled,  \* elements.applyCrop.disabled
    pendingCrops,   \* crop commands whose croppedImg has not fired onload yet
    used,           \* how often each bounded request has been accepted
    fileName,       \* state.fileName
    loads,          \* the selected files on their way to state.originalImage
    selects,        \* how many selections have been accepted
    \* the PDF tool (src/app.js)
    file,               \* state.file, or NoFile
    compressedBlob,     \* state.compressedBlob, or NoBlob
    originalSize,       \* state.originalSize
    compressedSize,     \* state.compressedSize
    isProcessing,       \* state.isProcessing
    images,             \* state.images, by image file number
    imagePdfBlob,       \* state.imagePdfBlob, or NoBlob
    draggedImageIndex,  \* draggedImageIndex, -1 for null
    imageListHidden,    \* elements.imageList carries 'hidden'
    pendingReads,       \* image files whose FileReader has not fired onload yet
    offered,            \* image files passed to addImages so far
    runs,               \* the suspended async calls of compressPDF and
                        \* createPdfFromImages, each at one of its awaits
    view,               \* which sections carry 'hidden', and the savings badge
    batchOf,            \* for each image file, the addImages call it came with
    \* the documents under construction (src/app.js)
    settings,       \* the routine of the running job and the controls it read
    jspdfDoc,       \* jspdfDoc: the sheets added so far, empty for null
    \* the tiled watermark and the downloads
    tiling,         \* the canvas being tiled, and one of its pixels
    download,       \* the name of the last download
    \* the preview modal (src/app.js)
    previewPdf,         \* state.previewPdf, or NoBlob
    currentPage,        \* state.currentPage
    totalPages,         \* state.totalPages
    previewModalHidden, \* elements.previewModal carries 'hidden'
    previewCanvas,      \* what elements.previewCanvas shows
    previews,           \* the suspended calls of openPreview and of
                        \* renderPreviewPage
    previewLog,         \* the requests made so far, and whether a render
                        \* that nobody awaits has thrown
    \* all
    lastOp          \* the handler that ran last, its outcome and its input

cropVars == <<originalImage, crop, modalOpen, applyDisabled, pendingCrops, used>>
pdfVars == <<file, compressedBlob, originalSize, compressedSize, isProcessing,
             images, imagePdfBlob, draggedImageIndex, imageListHidden,
             pendingReads, offered, runs, view, batchOf>>
sheetVars == <<settings, jspdfDoc>>
loadVars == <<fileName, loads, selects>>
outVars == <<tiling, download>>
previewVars == <<previewPdf, currentPage, totalPages, previewModalHidden,
                 previewCanvas, previews, previewLog>>
vars == <<cropVars, pdfVars, sheetVars, loadVars, outVars, previewVars, lastOp>>

\* the outcome is named first, so that records of different handlers differ
\* in op before their inputs are compared
Op(name, arg) == [op |-> name, with |-> arg]

Init ==
    /\ originalImage = NoImage
    /\ crop = InitialCrop
    /\ modalOpen = FALSE
    /\ applyDisabled = FALSE
    /\ pendingCrops = {}
    /\ used = [drags |-> 0, crops |-> 0, ratioSets |-> 0]
    /\ fileName = <<>>
    /\ loads = {}
    /\ selects = 0
    /\ file = NoFile
    /\ compressedBlob = NoBlob
    /\ originalSize = 0
    /\ compressedSize = 0
    /\ isProcessing = FALSE
    /\ images = <<>>
    /\ imagePdfBlob = NoBlob
    /\ draggedImageIndex = -1
    /\ imageListHidden = TRUE
    /\ pendingReads = {}
    /\ offered = 0
    /\ runs = <<>>
    /\ view = InitialView
    /\ batchOf = <<>>
    /\ settings = NoSettings
    /\ jspdfDoc = <<>>
    /\ tiling = NoTiling
    /\ download = NoDownload
    /\ previewPdf = NoBlob
    /\ currentPage = 1
    /\ totalPages = 1
    /\ previewModalHidden = TRUE
    /\ previewCanvas = NoPicture
    /\ previews = <<>>
    /\ previewLog = [opens |-> 0, navs |-> 0, rejected |-> FALSE]
    /\ lastOp = Op("init", <<>>)

(***************************************************************************)
(* Handlers of the watermark tool.                                         *)
(***************************************************************************)
\* a selected file has been read and decoded: img.onload of handleFileSelect
FileLoaded(img) ==
    /\ originalImage = NoImage
    /\ originalImage' = img
    /\ lastOp' = Op("fileLoaded", <<>>)
    /\ UNCHANGED <<crop, modalOpen, applyDisabled, pendingCrops, used>>
    /\ UNCHANGED <<pdfVars, sheetVars, previewVars, outVars, loadVars>>

OpenCropModal(vp) ==
    /\ ~modalOpen
    /\ IF originalImage = NoImage
       THEN /\ lastOp' = Op("openCropModal:noImage", <<>>)
            /\ UNCHANGED cropVars
       ELSE /\ crop' = OpenCrop(crop, originalImage, vp)
            /\ applyDisabled' = ApplyDisabled(crop')
            /\ modalOpen' = TRUE
            /\ lastOp' = Op("openCropModal", vp)
            /\ UNCHANGED <<originalImage, pendingCrops, used>>
    /\ UNCHANGED <<pdfVars, sheetVars, previewVars, outVars, loadVars>>

CloseCropModal ==
    /\ modalOpen
    /\ modalOpen' = FALSE
    /\ crop' = [crop EXCEPT !.isDragging = FALSE]
    /\ lastOp' = Op("closeCropModal", <<>>)
    /\ UNCHANGED <<originalImage, applyDisabled, pendingCrops, used>>
    /\ UNCHANGED <<pdfVars, sheetVars, previewVars, outVars, loadVars>>

SetAspectRatio(ratio) ==
    /\ modalOpen
    /\ crop' = SetAspect(crop, ratio)
    /\ applyDisabled' = ApplyDisabled(crop')
    /\ used' = [used EXCEPT !.ratioSets = @ + 1]
    /\ lastOp' = Op("setAspectRatio", ratio)
    /\ UNCHANGED <<originalImage, modalOpen, pendingCrops>>
    /\ UNCHANGED <<pdfVars, sheetVars, previewVars, outVars, loadVars>>

HandleCropMouseDown(target, mx, my) ==
    /\ modalOpen
    /\ IF target = "other"
       THEN /\ lastOp' = Op("mouseDown:ignored", <<mx, my, target>>)
            /\ UNCHANGED cropVars
       ELSE /\ crop' = MouseDown(crop, target, mx, my)
            /\ used' = [used EXCEPT !.drags = @ + 1]
            /\ lastOp' = Op("mouseDown", <<mx, my, target>>)
            /\ UNCHANGED <<originalImage, modalOpen, applyDisabled, pendingCrops>>
    /\ UNCHANGED <<pdfVars, sheetVars, previewVars, outVars, loadVars>>

HandleCropMouseMove(mx, my) ==
    /\ IF ~crop.isDragging
       THEN /\ lastOp' = Op("mouseMove:ignored", <<mx, my>>)
            /\ UNCHANGED cropVars
       ELSE /\ crop' = MouseMove(crop, mx, my)
            /\ applyDisabled' = ApplyDisabled(crop')
            /\ lastOp' = Op("mouseMove", <<mx, my>>)
            /\ UNCHANGED <<originalImage, modalOpen, pendingCrops, used>>
    /\ UNCHANGED <<pdfVars, sheetVars, previewVars, outVars, loadVars>>

HandleCropMouseUp ==
    /\ crop' = MouseUp(crop)
    /\ lastOp' = Op("mouseUp", <<>>)
    /\ UNCHANGED <<originalImage, modalOpen, applyDisabled, pendingCrops, used>>
    /\ UNCHANGED <<pdfVars, sheetVars, previewVars, outVars, loadVars>>

ApplyCrop ==
    /\ modalOpen
    /\ IF TooSmall(crop)
       THEN /\ lastOp' = Op("applyCrop:tooSmall", <<>>)
            /\ UNCHANGED cropVars
       ELSE /\ pendingCrops' = pendingCrops \cup {CropCommand(crop)}
            /\ used' = [used EXCEPT !.crops = @ + 1]
            /\ lastOp' = Op("applyCrop", CropCommand(crop))
            /\ UNCHANGED <<originalImage, crop, modalOpen, applyDisabled>>
    /\ UNCHANGED <<pdfVars, sheetVars, previewVars, outVars, loadVars>>

\* a variant of CroppedImgOnload that hides the modal without closeCropModal
CroppedImgOnloadHidesOnly(cmd) ==
    /\ cmd \in pendingCrops
    /\ pendingCrops' = pendingCrops \ {cmd}
    /\ originalImage' = CroppedImage(cmd)
    /\ modalOpen' = FALSE
    /\ lastOp' = Op("croppedImg.onload", cmd)
    /\ UNCHANGED <<crop, applyDisabled, used>>
    /\ UNCHANGED <<pdfVars, sheetVars, previewVars, outVars, loadVars>>

\* croppedImg.onload
CroppedImgOnload(cmd) ==
    /\ cmd \in pendingCrops
    /\ pendingCrops' = pendingCrops \ {cmd}
    /\ originalImage' = CroppedImage(cmd)
    /\ modalOpen' = FALSE
    /\ crop' = [crop EXCEPT !.isDragging = FALSE]
    /\ lastOp' = Op("croppedImg.onload", cmd)
    /\ UNCHANGED <<applyDisabled, used>>
    /\ UNCHANGED <<pdfVars, sheetVars, previewVars, outVars, loadVars>>

\* the requests of the environment, each bounded
UserFile == \E img \in Images : FileLoaded(img)
UserOpen == \E vp \in Viewports : OpenCropModal(vp)
UserRatio ==
    /\ used.ratioSets < MaxRatioSets
    /\ \E ratio \in RatioButtons \cup {Null} : SetAspectRatio(ratio)
UserDown(max, targets) ==
    \E t \in targets, p \in DownPoints :
        /\ t # "other" => used.drags < max
        /\ HandleCropMouseDown(t, p[1], p[2])
UserMove == \E p \in MovePoints : HandleCropMouseMove(p[1], p[2])
UserApply ==
    /\ TooSmall(crop) \/ used.crops < MaxCrops
    /\ ApplyCrop

\* the crop editor's geometry: sessions, ratio buttons and one drag
NextCrop ==
    \/ UserFile
    \/ UserOpen
    \/ CloseCropModal
    \/ UserRatio
    \/ UserDown(MaxDrags, Targets)
    \/ UserMove
    \/ HandleCropMouseUp

SpecCrop == Init /\ [][NextCrop]_vars

\* a drag restarted by a second pointer-down
NextRedrag ==
    \/ UserFile
    \/ UserOpen
    \/ UserDown(MaxRedrags, Targets)
    \/ UserMove
    \/ HandleCropMouseUp

SpecRedrag == Init /\ [][NextRedrag]_vars

\* the crop session with applyCrop and the cropped image's load
NextApply ==
    \/ UserFile
    \/ UserOpen
    \/ CloseCropModal
    \/ UserDown(MaxDrags, {"se", "other"})
    \/ UserMove
    \/ HandleCropMouseUp
    \/ UserApply
    \/ \E cmd \in pendingCrops : CroppedImgOnload(cmd)

SpecApply == Init /\ [][NextApply]_vars

\* the same, every cropped image that was requested finishing its load
SpecApplyFair ==
    SpecApply /\ WF_vars(\E cmd \in pendingCrops : CroppedImgOnload(cmd))

\* the crop editor on an image smaller than the viewport maximum (scale 1)
SmallImages == { [width |-> 100, height |-> 100] }

NextSmall ==
    \/ \E img \in SmallImages : FileLoaded(img)
    \/ UserOpen
    \/ CloseCropModal
    \/ /\ used.ratioSets < MaxRatioSets + 1
       /\ \E ratio \in RatioButtons \cup {Null} : SetAspectRatio(ratio)
    \/ UserDown(MaxDrags, Targets)
    \/ UserMove
    \/ HandleCropMouseUp

SpecSmall == Init /\ [][NextSmall]_vars

(***************************************************************************)
(* Loading a file into the watermark tool: handleFileSelect up to its      *)
(* await, and the callbacks that follow it.                                *)
(***************************************************************************)
\* a variant of HandleImageFileSelect that takes every file that is present
IsRejectedNever(f) == FALSE

\* the second early return of handleFileSelect
IsRejected(f) == ~IsImage(f) /\ ~isHeicFile(f)

\* handleFileSelect(file), to the await of the conversion or to
\* reader.readAsDataURL; each file on its way remembers the state it was
\* selected in
HandleImageFileSelect(f) ==
    /\ selects < MaxSelects
    /\ IF f = MissingFile
       THEN /\ lastOp' = Op("selectImage:missing", f)
            /\ UNCHANGED loadVars
       ELSE IF IsRejected(f)
       THEN /\ lastOp' = Op("selectImage:notImage", f)
            /\ UNCHANGED loadVars
       ELSE /\ fileName' = f.name
            /\ selects' = selects + 1
            /\ loads' = loads \cup
                   {[id |-> selects + 1, file |-> f,
                     at |-> IF isHeicFile(f) THEN "convert" ELSE "read",
                     before |-> [originalImage |-> originalImage,
                                 fileName |-> fileName]]}
            /\ lastOp' = Op("selectImage", f)
    /\ UNCHANGED <<cropVars, pdfVars, sheetVars, previewVars, outVars>>

\* convertHeicToJpeg settles: the file goes to the reader, or the catch
\* block alerts and returns
HeicConverted(l, ok) ==
    /\ l \in loads /\ l.at = "convert"
    /\ IF ok
       THEN /\ loads' = (loads \ {l}) \cup {[l EXCEPT !.at = "read"]}
            /\ lastOp' = Op("selectImage:converted", <<>>)
       ELSE /\ loads' = loads \ {l}
            /\ lastOp' = Op("selectImage:conversionFailed", <<>>)
    /\ UNCHANGED <<fileName, selects, cropVars, pdfVars, sheetVars, previewVars, outVars>>

\* reader.onload: the data URL is handed to a new Image
ReaderLoaded(l) ==
    /\ l \in loads /\ l.at = "read"
    /\ loads' = (loads \ {l}) \cup {[l EXCEPT !.at = "decode"]}
    /\ lastOp' = Op("selectImage:read", <<>>)
    /\ UNCHANGED <<fileName, selects, cropVars, pdfVars, sheetVars, previewVars, outVars>>

\* img.onload: the image becomes state.originalImage
ImageDecoded(l) ==
    /\ l \in loads /\ l.at = "decode"
    /\ loads' = loads \ {l}
    /\ originalImage' = l.file.img
    /\ lastOp' = Op("selectImage:loaded", <<>>)
    /\ UNCHANGED <<crop, modalOpen, applyDisabled, pendingCrops, used>>
    /\ UNCHANGED <<fileName, selects, pdfVars, sheetVars, previewVars, outVars>>

\* removeImage of the watermark tool, from the editor
RemoveOriginalImage ==
    /\ originalImage # NoImage
    /\ originalImage' = NoImage
    /\ fileName' = <<>>
    /\ lastOp' = Op("removeOriginalImage", <<>>)
    /\ UNCHANGED <<crop, modalOpen, applyDisabled, pendingCrops, used>>
    /\ UNCHANGED <<loads, selects, pdfVars, sheetVars, previewVars, outVars>>

(***************************************************************************)
(* Handlers of the PDF tool.  An async function runs to its next await in  *)
(* one step; the promise it awaits settles in a later step, resolved or    *)
(* rejected.                                                               *)
(***************************************************************************)
\* src is the file of a compression run; an image run remembers the list and
\* the blob it started with
Run(kind, pc, src) ==
    [kind |-> kind, pc |-> pc, src |-> src, numPages |-> 0, at |-> 0,
     cur |-> Undefined, doc |-> <<>>]

DropRun(k) == SubSeq(runs, 1, k - 1) \o SubSeq(runs, k + 1, Len(runs))

HandleFileSelect(f) ==
    /\ file = NoFile
    /\ IF f.type # "application/pdf"
       THEN /\ lastOp' = Op("handleFileSelect:notPdf", f)
            /\ UNCHANGED pdfVars
       ELSE IF f.size > MaxFileSize
       THEN /\ lastOp' = Op("handleFileSelect:tooLarge", f)
            /\ UNCHANGED pdfVars
       ELSE /\ file' = f
            /\ originalSize' = f.size
            /\ view' = [view EXCEPT !.dropZone = "hidden", !.fileInfo = "shown",
                                    !.settingsPanel = "shown",
                                    !.resultsSection = "hidden"]
            /\ lastOp' = Op("handleFileSelect", f)
            /\ UNCHANGED <<compressedBlob, compressedSize, isProcessing, images,
                           imagePdfBlob, draggedImageIndex, imageListHidden,
                           pendingReads, offered, runs>>
    /\ UNCHANGED <<batchOf, cropVars, sheetVars, previewVars, outVars, loadVars>>

RemoveFile ==
    /\ file # NoFile
    /\ file' = NoFile
    /\ compressedBlob' = NoBlob
    /\ originalSize' = 0
    /\ compressedSize' = 0
    /\ view' = [view EXCEPT !.dropZone = "shown", !.fileInfo = "hidden",
                            !.settingsPanel = "hidden",
                            !.progressSection = "hidden",
                            !.resultsSection = "hidden"]
    /\ lastOp' = Op("removeFile", <<>>)
    /\ UNCHANGED <<isProcessing, images, imagePdfBlob, draggedImageIndex,
                   imageListHidden, pendingReads, offered, runs>>
    /\ UNCHANGED <<batchOf, cropVars, sheetVars, previewVars, outVars, loadVars>>

CompressPDF(mode) ==
    /\ IF CompressRejected(file, isProcessing)
       THEN /\ lastOp' = Op("compressPDF:rejected", mode)
            /\ UNCHANGED pdfVars
       ELSE /\ isProcessing' = TRUE
            /\ view' = [view EXCEPT !.settingsPanel = "hidden",
                                    !.progressSection = "shown"]
            /\ runs' = Append(runs, Run(mode, "arrayBuffer", file))
            /\ lastOp' = Op("compressPDF", mode)
            /\ UNCHANGED <<file, compressedBlob, originalSize, compressedSize,
                           images, imagePdfBlob, draggedImageIndex,
                           imageListHidden, pendingReads, offered>>
    /\ UNCHANGED <<batchOf, cropVars, sheetVars, previewVars, outVars, loadVars>>

\* compressPDF after its await returned: showResults and the finally block
CompressDone(k, blob, size) ==
    /\ compressedBlob' = blob
    /\ compressedSize' = size
    /\ view' = [view EXCEPT !.progressSection = "hidden",
                            !.resultsSection = "shown",
                            !.savingsBadge = SavingsBadge(size, originalSize)]
    /\ isProcessing' = FALSE
    /\ runs' = DropRun(k)
    /\ lastOp' = Op("compressPDF:done", Len(blob.pages))
    /\ UNCHANGED <<file, originalSize, images, imagePdfBlob, draggedImageIndex,
                   imageListHidden, pendingReads, offered>>
    /\ UNCHANGED <<batchOf, cropVars, sheetVars, previewVars, outVars, loadVars>>

\* a variant of CompressFailed whose catch block does not call removeFile
CompressFailedKeepsFile(k) ==
    /\ isProcessing' = FALSE
    /\ view' = [view EXCEPT !.progressSection = "hidden"]
    /\ runs' = DropRun(k)
    /\ lastOp' = Op("compressPDF:failed", Len(runs[k].doc))
    /\ UNCHANGED <<file, compressedBlob, originalSize, compressedSize,
                   images, imagePdfBlob, draggedImageIndex, imageListHidden,
                   pendingReads, offered>>
    /\ UNCHANGED <<batchOf, cropVars, sheetVars, previewVars, outVars, loadVars>>

\* compressPDF after its await threw: the catch block (removeFile) and the
\* finally block
CompressFailed(k) ==
    /\ file' = NoFile
    /\ compressedBlob' = NoBlob
    /\ originalSize' = 0
    /\ compressedSize' = 0
    /\ view' = [view EXCEPT !.dropZone = "shown", !.fileInfo = "hidden",
                            !.settingsPanel = "hidden",
                            !.progressSection = "hidden",
                            !.resultsSection = "hidden"]
    /\ isProcessing' = FALSE
    /\ runs' = DropRun(k)
    /\ lastOp' = Op("compressPDF:failed", Len(runs[k].doc))
    /\ UNCHANGED <<images, imagePdfBlob, draggedImageIndex, imageListHidden,
                   pendingReads, offered>>
    /\ UNCHANGED <<batchOf, cropVars, sheetVars, previewVars, outVars, loadVars>>

Suspend(k, run, name) ==
    /\ runs' = [runs EXCEPT ![k] = run]
    /\ lastOp' = Op(name, <<>>)
    /\ UNCHANGED <<file, compressedBlob, originalSize, compressedSize,
                   isProcessing, images, imagePdfBlob, draggedImageIndex,
                   imageListHidden, pendingReads, offered>>
    /\ UNCHANGED <<batchOf, cropVars, sheetVars, previewVars, outVars, loadVars, view>>

\* state.file.arrayBuffer() settles
FileRead(k, ok) ==
    /\ runs[k].pc = "arrayBuffer"
    /\ IF ok
       THEN Suspend(k, [runs[k] EXCEPT !.pc = IF runs[k].kind = "lossy"
                                              THEN "getDocument" ELSE "load"],
                    "arrayBuffer")
       ELSE CompressFailed(k)

\* pdfjsLib.getDocument(...).promise or PDFDocument.load(...) settles
DocumentLoaded(k, ok) ==
    /\ runs[k].pc \in {"getDocument", "load"}
    /\ LET n == runs[k].src.pages
       IN  IF ~ok THEN CompressFailed(k)
           ELSE IF runs[k].kind = "lossless" \/ MorePages(1, n)
           THEN Suspend(k, [runs[k] EXCEPT !.pc = "sleep", !.numPages = n,
                                            !.at = 1], "documentLoaded")
           ELSE CompressFailed(k)

\* the rejection of a setTimeout promise never happens
CompressTimeout(k) ==
    /\ runs[k].pc = "sleep"
    /\ runs[k].kind \in {"lossy", "lossless"}
    /\ Suspend(k, [runs[k] EXCEPT !.pc = IF runs[k].kind = "lossy"
                                           THEN "getPage" ELSE "save"],
               "timeout")

\* pdf.getPage(pageNum) settles
PageLoaded(k, ok) ==
    /\ runs[k].pc = "getPage"
    /\ IF ok THEN Suspend(k, [runs[k] EXCEPT !.pc = "render"], "getPage")
       ELSE CompressFailed(k)

\* page.render(...).promise settles; the rest of the loop body, the loop
\* test and, after the last page, the output of the document
PageRendered(k, ok, size) ==
    /\ runs[k].pc = "render"
    /\ LET doc == Append(runs[k].doc, runs[k].at)
       IN  IF ~ok THEN CompressFailed(k)
           ELSE IF MorePages(runs[k].at + 1, runs[k].numPages)
           THEN /\ size = 0
                /\ Suspend(k, [runs[k] EXCEPT !.pc = "sleep", !.doc = doc,
                                               !.at = @ + 1], "render")
           ELSE /\ size \in OutSizes
                /\ CompressDone(k, [pages |-> doc, of |-> runs[k].numPages,
                                    src |-> runs[k].src], size)

\* pdfDoc.save(...) settles
DocumentSaved(k, ok, size) ==
    /\ runs[k].pc = "save"
    /\ IF ok
       THEN CompressDone(k, [pages |-> [i \in 1..runs[k].numPages |-> i],
                             of |-> runs[k].numPages, src |-> runs[k].src], size)
       ELSE CompressFailed(k)

\* the addImages calls made so far
Calls == IF batchOf = <<>> THEN 0 ELSE batchOf[Len(batchOf)]

\* addImages(files) with the next n image files
AddImages(n) ==
    /\ pendingReads' = pendingReads \cup (offered + 1 .. offered + n)
    /\ offered' = offered + n
    /\ batchOf' = batchOf \o [i \in 1..n |-> Calls + 1]
    /\ lastOp' = Op("addImages", n)
    /\ UNCHANGED <<file, compressedBlob, originalSize, compressedSize,
                   isProcessing, images, imagePdfBlob, draggedImageIndex,
                   imageListHidden, runs>>
    /\ UNCHANGED <<cropVars, sheetVars, previewVars, outVars, loadVars, view>>

\* reader.onload of addImages, with updateImageGrid
ReaderOnload(id) ==
    /\ id \in pendingReads
    /\ pendingReads' = pendingReads \ {id}
    /\ images' = Append(images, id)
    /\ imageListHidden' = FALSE
    /\ lastOp' = Op("reader.onload", id)
    /\ UNCHANGED <<file, compressedBlob, originalSize, compressedSize,
                   isProcessing, imagePdfBlob, draggedImageIndex, offered, runs>>
    /\ UNCHANGED <<batchOf, cropVars, sheetVars, previewVars, outVars, loadVars, view>>

\* the buttons and items of the list exist while the list is shown
RemoveImage(index) ==
    /\ ~imageListHidden
    /\ index \in 0 .. Len(images) - 1
    /\ images' = SpliceOut(images, index)
    /\ imageListHidden' = (Len(images') = 0)
    /\ view' = IF Len(images') = 0
               THEN [view EXCEPT !.imageResultsSection = "hidden"] ELSE view
    /\ lastOp' = Op("removeImage", index)
    /\ UNCHANGED <<file, compressedBlob, originalSize, compressedSize,
                   isProcessing, imagePdfBlob, draggedImageIndex, pendingReads,
                   offered, runs>>
    /\ UNCHANGED <<batchOf, cropVars, sheetVars, previewVars, outVars, loadVars>>

HandleImageDragStart(index) ==
    /\ ~imageListHidden
    /\ index \in 0 .. Len(images) - 1
    /\ draggedImageIndex' = index
    /\ lastOp' = Op("dragstart", index)
    /\ UNCHANGED <<file, compressedBlob, originalSize, compressedSize,
                   isProcessing, images, imagePdfBlob, imageListHidden,
                   pendingReads, offered, runs>>
    /\ UNCHANGED <<batchOf, cropVars, sheetVars, previewVars, outVars, loadVars, view>>

HandleImageDropReorder(targetIndex) ==
    /\ ~imageListHidden
    /\ targetIndex \in 0 .. Len(images) - 1
    /\ IF draggedImageIndex # -1 /\ draggedImageIndex # targetIndex
       THEN /\ images' = Reorder(images, draggedImageIndex, targetIndex)
            /\ lastOp' = Op("drop", targetIndex)
       ELSE /\ lastOp' = Op("drop:ignored", targetIndex)
            /\ UNCHANGED images
    /\ UNCHANGED <<file, compressedBlob, originalSize, compressedSize,
                   isProcessing, imagePdfBlob, draggedImageIndex,
                   imageListHidden, pendingReads, offered, runs>>
    /\ UNCHANGED <<batchOf, cropVars, sheetVars, previewVars, outVars, loadVars, view>>

HandleImageDragEnd ==
    /\ draggedImageIndex # -1
    /\ draggedImageIndex' = -1
    /\ lastOp' = Op("dragend", <<>>)
    /\ UNCHANGED <<file, compressedBlob, originalSize, compressedSize,
                   isProcessing, images, imagePdfBlob, imageListHidden,
                   pendingReads, offered, runs>>
    /\ UNCHANGED <<batchOf, cropVars, sheetVars, previewVars, outVars, loadVars, view>>

\* clearImagesBtn in the list, imageNewBtn in the results
ClearAllImages ==
    /\ ~imageListHidden \/ imagePdfBlob # NoBlob
    /\ images' = <<>>
    /\ imagePdfBlob' = NoBlob
    /\ imageListHidden' = TRUE
    /\ view' = [view EXCEPT !.imageResultsSection = "hidden"]
    /\ lastOp' = Op("clearAllImages", <<>>)
    /\ UNCHANGED <<file, compressedBlob, originalSize, compressedSize,
                   isProcessing, draggedImageIndex, pendingReads, offered, runs>>
    /\ UNCHANGED <<batchOf, cropVars, sheetVars, previewVars, outVars, loadVars>>

CreatePdfFromImages ==
    /\ IF CreateRejected(images, isProcessing)
       THEN /\ lastOp' = Op("createPdfFromImages:rejected", <<>>)
            /\ UNCHANGED pdfVars
       ELSE /\ isProcessing' = TRUE
            /\ imageListHidden' = TRUE
            /\ view' = [view EXCEPT !.imageProgressSection = "shown"]
            /\ runs' = Append(runs, Run("images", "sleep",
                                        [images |-> images,
                                         imagePdfBlob |-> imagePdfBlob]))
            /\ lastOp' = Op("createPdfFromImages", <<>>)
            /\ UNCHANGED <<file, compressedBlob, originalSize, compressedSize,
                           images, imagePdfBlob, draggedImageIndex,
                           pendingReads, offered>>
    /\ UNCHANGED <<batchOf, cropVars, sheetVars, previewVars, outVars, loadVars>>

\* createPdfFromImages after its loop: the blob, showImageResults, finally
CreateDone(k, doc) ==
    /\ imagePdfBlob' = [pages |-> doc, of |-> Len(images), src |-> NoFile]
    /\ view' = [view EXCEPT !.imageProgressSection = "hidden",
                            !.imageResultsSection = "shown"]
    /\ isProcessing' = FALSE
    /\ runs' = DropRun(k)
    /\ lastOp' = Op("createPdfFromImages:done", doc)
    /\ UNCHANGED <<file, compressedBlob, originalSize, compressedSize, images,
                   draggedImageIndex, imageListHidden, pendingReads, offered>>
    /\ UNCHANGED <<batchOf, cropVars, sheetVars, previewVars, outVars, loadVars>>

\* a variant of CreateFailed without the finally block
CreateFailedStaysBusy(k) ==
    /\ imageListHidden' = FALSE
    /\ view' = [view EXCEPT !.imageProgressSection = "hidden"]
    /\ runs' = DropRun(k)
    /\ lastOp' = Op("createPdfFromImages:failed", Len(runs[k].doc))
    /\ UNCHANGED <<file, compressedBlob, originalSize, compressedSize, images,
                   isProcessing, imagePdfBlob, draggedImageIndex, pendingReads,
                   offered>>
    /\ UNCHANGED <<batchOf, cropVars, sheetVars, previewVars, outVars, loadVars>>

\* createPdfFromImages after a throw: the catch block and the finally block
CreateFailed(k) ==
    /\ imageListHidden' = FALSE
    /\ view' = [view EXCEPT !.imageProgressSection = "hidden"]
    /\ isProcessing' = FALSE
    /\ runs' = DropRun(k)
    /\ lastOp' = Op("createPdfFromImages:failed", Len(runs[k].doc))
    /\ UNCHANGED <<file, compressedBlob, originalSize, compressedSize, images,
                   imagePdfBlob, draggedImageIndex, pendingReads, offered>>
    /\ UNCHANGED <<batchOf, cropVars, sheetVars, previewVars, outVars, loadVars>>

\* the 10 ms timeout of the loop body elapses: state.images[i] is read and
\* loadImage(img.dataUrl) is called
CreateTimeout(k) ==
    /\ runs[k].pc = "sleep"
    /\ runs[k].kind = "images"
    /\ LET i == runs[k].at
       IN  IF i >= Len(images) \/ images[i + 1] = Undefined
           THEN CreateFailed(k)
           ELSE Suspend(k, [runs[k] EXCEPT !.pc = "loadImage",
                                            !.cur = images[i + 1]], "timeout")

\* loadImage settles; the rest of the loop body and the loop test
ImageLoaded(k, ok) ==
    /\ runs[k].pc = "loadImage"
    /\ LET doc == Append(runs[k].doc, runs[k].cur)
       IN  IF ~ok THEN CreateFailed(k)
           ELSE IF MoreImages(runs[k].at + 1, images)
           THEN Suspend(k, [runs[k] EXCEPT !.pc = "sleep", !.doc = doc,
                                            !.at = @ + 1], "loadImage")
           ELSE CreateDone(k, doc)

\* the two kinds of job, which share state.isProcessing
NextPdf ==
    \/ \E f \in PdfFiles : HandleFileSelect(f)
    \/ RemoveFile
    \/ \E mode \in Modes : CompressPDF(mode)
    \/ \E k \in 1..Len(runs), ok \in BOOLEAN : FileRead(k, ok)
    \/ \E k \in 1..Len(runs), ok \in BOOLEAN : DocumentLoaded(k, ok)
    \/ \E k \in 1..Len(runs) : CompressTimeout(k)
    \/ \E k \in 1..Len(runs), ok \in BOOLEAN : PageLoaded(k, ok)
    \/ \E k \in 1..Len(runs), ok \in BOOLEAN, size \in OutSizes \cup {0} :
           PageRendered(k, ok, size)
    \/ \E k \in 1..Len(runs), ok \in BOOLEAN, size \in OutSizes :
           DocumentSaved(k, ok, size)
    \/ offered + 1 <= MaxImages /\ AddImages(1)
    \/ \E id \in pendingReads : ReaderOnload(id)
    \/ ClearAllImages
    \/ CreatePdfFromImages
    \/ \E k \in 1..Len(runs) : CreateTimeout(k)
    \/ \E k \in 1..Len(runs), ok \in BOOLEAN : ImageLoaded(k, ok)

SpecPdf == Init /\ [][NextPdf]_vars

\* an awaited call of a run settles: the file read, the document load, a
\* timeout, a page load, a render, the save, an image load
Settle ==
    \/ \E k \in 1..Len(runs), ok \in BOOLEAN : FileRead(k, ok)
    \/ \E k \in 1..Len(runs), ok \in BOOLEAN : DocumentLoaded(k, ok)
    \/ \E k \in 1..Len(runs) : CompressTimeout(k)
    \/ \E k \in 1..Len(runs), ok \in BOOLEAN : PageLoaded(k, ok)
    \/ \E k \in 1..Len(runs), ok \in BOOLEAN, size \in OutSizes \cup {0} :
           PageRendered(k, ok, size)
    \/ \E k \in 1..Len(runs), ok \in BOOLEAN, size \in OutSizes :
           DocumentSaved(k, ok, size)
    \/ \E k \in 1..Len(runs) : CreateTimeout(k)
    \/ \E k \in 1..Len(runs), ok \in BOOLEAN : ImageLoaded(k, ok)

\* the same, every awaited call settling eventually
SpecPdfFair == SpecPdf /\ WF_vars(Settle)

\* the image list and the image-to-PDF job
NextImages ==
    \/ \E n \in 1..2 : offered + n <= MaxImages /\ AddImages(n)
    \/ \E id \in pendingReads : ReaderOnload(id)
    \/ \E index \in 0..MaxImages : RemoveImage(index)
    \/ \E index \in 0..MaxImages : HandleImageDragStart(index)
    \/ \E index \in 0..MaxImages : HandleImageDropReorder(index)
    \/ HandleImageDragEnd
    \/ ClearAllImages
    \/ CreatePdfFromImages
    \/ \E k \in 1..Len(runs) : CreateTimeout(k)
    \/ \E k \in 1..Len(runs), ok \in BOOLEAN : ImageLoaded(k, ok)

SpecImages == Init /\ [][NextImages]_vars

\* the same without the reordering by drag and drop
NextAdd ==
    \/ \E n \in 1..2 : offered + n <= MaxImages /\ AddImages(n)
    \/ \E id \in pendingReads : ReaderOnload(id)
    \/ \E index \in 0..MaxImages : RemoveImage(index)
    \/ ClearAllImages
    \/ CreatePdfFromImages
    \/ \E k \in 1..Len(runs) : CreateTimeout(k)
    \/ \E k \in 1..Len(runs), ok \in BOOLEAN : ImageLoaded(k, ok)

SpecAdd == Init /\ [][NextAdd]_vars

\* selecting files in both tools
NextLoad ==
    \/ \E f \in WatermarkFiles \cup {MissingFile} : HandleImageFileSelect(f)
    \/ \E l \in loads, ok \in BOOLEAN : HeicConverted(l, ok)
    \/ \E l \in loads : ReaderLoaded(l)
    \/ \E l \in loads : ImageDecoded(l)
    \/ RemoveOriginalImage
    \/ \E f \in PdfFiles \cup {NoFile} : HandleFileSelect(f)
    \/ RemoveFile

SpecLoad == Init /\ [][NextLoad]_vars

(***************************************************************************)
(* The documents the jobs build, sheet by sheet.  A job reads its controls *)
(* once and starts with jspdfDoc = null; each iteration of its loop adds   *)
(* one sheet, for the next page of the source or the next image.           *)
(***************************************************************************)
\* the head of compressLossy, of the single-mode compressPDF and of
\* createPdfFromImages
StartJob(routine, dpi, quality, pageSize) ==
    /\ settings' = [routine |-> routine, dpi |-> dpi, quality |-> Quality(quality),
                    pageSize |-> pageSize]
    /\ jspdfDoc' = <<>>
    /\ lastOp' = Op(routine, <<>>)
    /\ UNCHANGED <<cropVars, pdfVars, loadVars, outVars, previewVars>>

AddSheet(sheet) ==
    /\ Len(jspdfDoc) < MaxSheets
    /\ jspdfDoc' = Append(jspdfDoc, sheet)
    /\ lastOp' = Op(settings.routine \o ":page", Len(jspdfDoc) + 1)
    /\ UNCHANGED <<settings, cropVars, pdfVars, loadVars, outVars, previewVars>>

CompressLossyPage(page) ==
    /\ settings.routine = "compressLossy"
    /\ AddSheet(CompressLossySheet(page, settings.dpi, settings.quality))

CompressPDFPage(page) ==
    /\ settings.routine = "compressPDF"
    /\ AddSheet(CompressPDFSheet(page, settings.dpi, settings.quality))

CreatePdfPage(img) ==
    /\ settings.routine = "createPdfFromImages"
    /\ AddSheet(CreatePdfSheet(img, settings.pageSize, settings.quality))

NextSheets ==
    \/ \E dpi \in DpiChoices, quality \in QualityChoices :
           StartJob("compressLossy", dpi, quality, "none")
    \/ \E dpi \in DpiChoices, quality \in QualityChoices :
           StartJob("compressPDF", dpi, quality, "none")
    \/ \E pageSize \in PageSizeChoices, quality \in QualityChoices :
           StartJob("createPdfFromImages", 0, quality, pageSize)
    \/ \E page \in SourcePages : CompressLossyPage(page)
    \/ \E page \in SourcePages : CompressPDFPage(page)
    \/ \E img \in SourceImages : CreatePdfPage(img)

SpecSheets == Init /\ [][NextSheets]_vars

(***************************************************************************)
(* The tiled watermark on a canvas, and where its loops reach a pixel.     *)
(***************************************************************************)
\* renderTiledWatermark(ctx, width, height, text, fontSize, rotation): the
\* diagonal and the transformation of the context
RenderTiledWatermark(canvas, rotation) ==
    /\ tiling' = [NoTiling EXCEPT !.width = canvas.width, !.height = canvas.height,
                                  !.rotation = rotation,
                                  !.diagonalSq = DiagonalSq(canvas.width, canvas.height)]
    /\ lastOp' = Op("renderTiledWatermark", <<>>)
    /\ UNCHANGED <<download, cropVars, pdfVars, sheetVars, previewVars, loadVars>>

\* the loops, looked at from one pixel of the canvas
TilePixel(fx, fy) ==
    /\ tiling.width > 0
    /\ LET px == RMul(fx, R(tiling.width))
           py == RMul(fy, R(tiling.height))
           at == ToTileSpace(px, py, tiling.width, tiling.height, tiling.rotation)
       IN  tiling' = [tiling EXCEPT !.pixel = <<px, py>>, !.at = at,
                                    !.covered = InTiledSquare(at, tiling.diagonalSq)]
    /\ lastOp' = Op("renderTiledWatermark:pixel", <<>>)
    /\ UNCHANGED <<download, cropVars, pdfVars, sheetVars, previewVars, loadVars>>

NextTiles ==
    \/ \E canvas \in TiledCanvases, rotation \in Rotations :
           RenderTiledWatermark(canvas, rotation)
    \/ \E fx \in Places, fy \in Places : TilePixel(fx, fy)

SpecTiles == Init /\ [][NextTiles]_vars

(***************************************************************************)
(* The loops of the tiled watermark, one fillText at a time.               *)
(***************************************************************************)
\* renderTiledWatermark up to the first fillText: both loops are entered,
\* the diagonal being positive
StartTiles(canvas, fontSize, textWidth, tileSpacing) ==
    /\ tiling.pc # "fill"
    /\ LET d == Diagonal(canvas.width, canvas.height)
       IN  tiling' = [NoTiling EXCEPT !.width = canvas.width,
                                      !.height = canvas.height,
                                      !.diagonalSq = d * d,
                                      !.spacing = Spacing(textWidth, fontSize, tileSpacing),
                                      !.x = -2000 * d, !.y = -2000 * d, !.pc = "fill"]
    /\ lastOp' = Op("renderTiledWatermark:loops", <<>>)
    /\ UNCHANGED <<download, cropVars, pdfVars, sheetVars, previewVars, loadVars>>

\* the next fillText, or the end of the loops
FillText ==
    /\ tiling.pc = "fill"
    /\ tiling' = NextTile(tiling)
    /\ lastOp' = Op("renderTiledWatermark:loops", <<>>)
    /\ UNCHANGED <<download, cropVars, pdfVars, sheetVars, previewVars, loadVars>>

NextLoops ==
    \/ \E canvas \in LoopCanvases, fontSize \in FontSizes,
          textWidth \in TextWidths, tileSpacing \in TileSpacings :
           StartTiles(canvas, fontSize, textWidth, tileSpacing)
    \/ FillText

SpecLoops == Init /\ [][NextLoops]_vars
\* the loop goes on as long as it can
SpecLoopsFair == SpecLoops /\ WF_vars(FillText)

(***************************************************************************)
(* The names of the downloads.                                             *)
(***************************************************************************)
\* downloadCompressed, for a file of the given name
DownloadCompressed(name) ==
    /\ download' = [tool |-> "pdf", from |-> name, name |-> CompressedName(name)]
    /\ lastOp' = Op("downloadCompressed", <<>>)
    /\ UNCHANGED <<tiling, cropVars, pdfVars, sheetVars, previewVars, loadVars>>

\* downloadImage, with the given state.fileName
DownloadImage(name) ==
    /\ download' = [tool |-> "watermark", from |-> name, name |-> WatermarkedName(name)]
    /\ lastOp' = Op("downloadImage", <<>>)
    /\ UNCHANGED <<tiling, cropVars, pdfVars, sheetVars, previewVars, loadVars>>

NextNames ==
    \/ \E name \in FileNames : DownloadCompressed(name)
    \/ \E name \in FileNames : DownloadImage(name)

SpecNames == Init /\ [][NextNames]_vars

(***************************************************************************)
(* The PDF preview modal (src/app.js).  previews holds the suspended calls *)
(* of openPreview and of renderPreviewPage, each at one of its awaits.     *)
(***************************************************************************)
DropPreview(k) == SubSeq(previews, 1, k - 1) \o SubSeq(previews, k + 1, Len(previews))

\* renderPreviewPage(pageNum) to its first await, called by from
RenderPreviewPage(pageNum, from, pdf) ==
    IF pdf = NoBlob THEN <<>>
    ELSE <<[kind |-> from, pc |-> "getPage", doc |-> pdf, page |-> pageNum,
            clean |-> FALSE]>>

\* a variant of CanGoNext that lets the page after the last one be asked for
CanGoNextInclusive(page, total) == page <= total

\* the tests of prevPage and nextPage
CanGoPrev(page) == page > 1
CanGoNext(page, total) == page < total

\* openPreview(blob), to its first await
OpenPreview(blob) ==
    /\ previewModalHidden
    /\ previewLog.opens < MaxOpens
    /\ IF blob = NoBlob
       THEN /\ lastOp' = Op("openPreview:noBlob", <<>>)
            /\ UNCHANGED previewVars
       ELSE /\ previewModalHidden' = FALSE
            /\ previews' = Append(previews, [kind |-> "open", pc |-> "arrayBuffer",
                                             doc |-> blob, page |-> 0,
                                             clean |-> FALSE])
            /\ previewLog' = [previewLog EXCEPT !.opens = @ + 1]
            /\ lastOp' = Op("openPreview", <<>>)
            /\ UNCHANGED <<previewPdf, currentPage, totalPages, previewCanvas>>
    /\ UNCHANGED <<cropVars, pdfVars, sheetVars, loadVars, outVars>>

\* closePreview
ClosePreview ==
    /\ ~previewModalHidden
    /\ previewModalHidden' = TRUE
    /\ previewPdf' = NoBlob
    /\ lastOp' = Op("closePreview", <<>>)
    /\ UNCHANGED <<currentPage, totalPages, previewCanvas, previews, previewLog>>
    /\ UNCHANGED <<cropVars, pdfVars, sheetVars, loadVars, outVars>>

\* an awaited call of preview k has thrown: the catch block of openPreview
\* (alert, closePreview), or nothing for a render that prevPage or nextPage
\* started and did not await
PreviewFailed(k) ==
    /\ previews' = DropPreview(k)
    /\ IF previews[k].kind = "open"
       THEN /\ previewModalHidden' = TRUE
            /\ previewPdf' = NoBlob
            /\ lastOp' = Op("openPreview:failed", <<>>)
            /\ UNCHANGED previewLog
       ELSE /\ previewLog' = [previewLog EXCEPT !.rejected = TRUE]
            /\ lastOp' = Op("renderPreviewPage:failed", <<>>)
            /\ UNCHANGED <<previewModalHidden, previewPdf>>
    /\ UNCHANGED <<currentPage, totalPages, previewCanvas>>
    /\ UNCHANGED <<cropVars, pdfVars, sheetVars, loadVars, outVars>>

\* blob.arrayBuffer() settles
PreviewBlobRead(k, ok) ==
    /\ previews[k].pc = "arrayBuffer"
    /\ IF ok
       THEN /\ previews' = [previews EXCEPT ![k].pc = "getDocument"]
            /\ lastOp' = Op("openPreview:read", <<>>)
            /\ UNCHANGED <<previewPdf, currentPage, totalPages, previewModalHidden,
                           previewCanvas, previewLog>>
            /\ UNCHANGED <<cropVars, pdfVars, sheetVars, loadVars, outVars>>
       ELSE PreviewFailed(k)

\* pdfjsLib.getDocument(...).promise settles: the document, its page count,
\* page 1, updatePageNavigation and renderPreviewPage to its first await
PreviewDocumentLoaded(k, ok) ==
    /\ previews[k].pc = "getDocument"
    /\ IF ok
       THEN /\ previewPdf' = previews[k].doc
            /\ totalPages' = Len(previews[k].doc.pages)
            /\ currentPage' = 1
            /\ previews' = [previews EXCEPT
                   ![k] = [@ EXCEPT !.pc = "getPage", !.page = 1]]
            /\ lastOp' = Op("openPreview:loaded", <<>>)
            /\ UNCHANGED <<previewModalHidden, previewCanvas, previewLog>>
            /\ UNCHANGED <<cropVars, pdfVars, sheetVars, loadVars, outVars>>
       ELSE PreviewFailed(k)

\* getPage(pageNum) settles: the canvas is resized, which clears it, and
\* page.render starts; a render that is drawing goes on drawing
PreviewPageLoaded(k, ok) ==
    /\ previews[k].pc = "getPage"
    /\ IF ok
       THEN /\ previews' =
                [j \in 1..Len(previews) |->
                    IF j = k
                    THEN [previews[j] EXCEPT !.pc = "render",
                              !.clean = \A i \in 1..Len(previews) :
                                            previews[i].pc # "render"]
                    ELSE [previews[j] EXCEPT !.clean = FALSE]]
            /\ previewCanvas' = NoPicture
            /\ lastOp' = Op("renderPreviewPage:page", <<>>)
            /\ UNCHANGED <<previewPdf, currentPage, totalPages, previewModalHidden,
                           previewLog>>
            /\ UNCHANGED <<cropVars, pdfVars, sheetVars, loadVars, outVars>>
       ELSE PreviewFailed(k)

\* page.render(...).promise settles
PreviewPageRendered(k, ok) ==
    /\ previews[k].pc = "render"
    /\ IF ok
       THEN /\ previews' = DropPreview(k)
            /\ previewCanvas' = IF previews[k].clean
                                THEN [doc |-> previews[k].doc, page |-> previews[k].page]
                                ELSE NoPicture
            /\ lastOp' = Op("renderPreviewPage:done", previews[k].page)
            /\ UNCHANGED <<previewPdf, currentPage, totalPages, previewModalHidden,
                           previewLog>>
            /\ UNCHANGED <<cropVars, pdfVars, sheetVars, loadVars, outVars>>
       ELSE PreviewFailed(k)

\* prevPage, from its button or the left arrow key
PrevPage ==
    /\ ~previewModalHidden
    /\ previewLog.navs < MaxNavs
    /\ previewLog' = [previewLog EXCEPT !.navs = @ + 1]
    /\ IF CanGoPrev(currentPage)
       THEN /\ currentPage' = currentPage - 1
            /\ previews' = previews \o
                   RenderPreviewPage(currentPage', "prevPage", previewPdf)
            /\ lastOp' = Op("prevPage", <<>>)
       ELSE /\ lastOp' = Op("prevPage:ignored", <<>>)
            /\ UNCHANGED <<currentPage, previews>>
    /\ UNCHANGED <<previewPdf, totalPages, previewModalHidden, previewCanvas>>
    /\ UNCHANGED <<cropVars, pdfVars, sheetVars, loadVars, outVars>>

\* nextPage, from its button or the right arrow key
NextPage ==
    /\ ~previewModalHidden
    /\ previewLog.navs < MaxNavs
    /\ previewLog' = [previewLog EXCEPT !.navs = @ + 1]
    /\ IF CanGoNext(currentPage, totalPages)
       THEN /\ currentPage' = currentPage + 1
            /\ previews' = previews \o
                   RenderPreviewPage(currentPage', "nextPage", previewPdf)
            /\ lastOp' = Op("nextPage", <<>>)
       ELSE /\ lastOp' = Op("nextPage:ignored", <<>>)
            /\ UNCHANGED <<currentPage, previews>>
    /\ UNCHANGED <<previewPdf, totalPages, previewModalHidden, previewCanvas>>
    /\ UNCHANGED <<cropVars, pdfVars, sheetVars, loadVars, outVars>>

NextPreview ==
    \/ \E blob \in PreviewBlobs \cup {NoBlob} : OpenPreview(blob)
    \/ ClosePreview
    \/ PrevPage
    \/ NextPage
    \/ \E k \in 1..Len(previews), ok \in BOOLEAN : PreviewBlobRead(k, ok)
    \/ \E k \in 1..Len(previews), ok \in BOOLEAN : PreviewDocumentLoaded(k, ok)
    \/ \E k \in 1..Len(previews), ok \in BOOLEAN : PreviewPageLoaded(k, ok)
    \/ \E k \in 1..Len(previews), ok \in BOOLEAN : PreviewPageRendered(k, ok)

SpecPreview == Init /\ [][NextPreview]_vars

(***************************************************************************)
(* showResults on given sizes.                                             *)
(***************************************************************************)
\* showResults, with state.originalSize = original and
\* state.compressedSize = compressed
ShowResults(original, compressed) ==
    /\ originalSize' = original
    /\ compressedSize' = compressed
    /\ view' = [view EXCEPT !.progressSection = "hidden",
                            !.resultsSection = "shown",
                            !.savingsBadge = SavingsBadge(compressed, original)]
    /\ lastOp' = Op("showResults", <<>>)
    /\ UNCHANGED <<file, compressedBlob, isProcessing, images, imagePdfBlob,
                   draggedImageIndex, imageListHidden, pendingReads, offered,
                   runs, batchOf>>
    /\ UNCHANGED <<cropVars, sheetVars, previewVars, outVars, loadVars>>

NextResults ==
    \E original \in ResultSizes, compressed \in ResultSizes :
        ShowResults(original, compressed)

SpecResults == Init /\ [][NextResults]_vars

(***************************************************************************)
(* Properties.                                                             *)
(***************************************************************************)
RAbs(a) == <<Abs(a[1]), a[2]>>

\* the pointer displacement of the pointer-move that ran last
LastDx == RSub(R(lastOp.with[1]), crop.startMouseX)
LastDy == RSub(R(lastOp.with[2]), crop.startMouseY)

RegionValid(c) ==
    /\ RGe(c.x, R(0)) /\ RGe(c.y, R(0))
    /\ RLe(RAdd(c.x, c.width), c.canvasWidth)
    /\ RLe(RAdd(c.y, c.height), c.canvasHeight)
    /\ RGe(c.width, R(20)) /\ RGe(c.height, R(20))

\* C1: after openCropModal, setAspectRatio and every pointer-move of a drag
\* the crop region lies inside the canvas (x >= 0, y >= 0,
\* x + width <= canvasWidth, y + height <= canvasHeight) and is at least
\* 20 wide and 20 high.
C1_RegionValid ==
    lastOp.op \in {"openCropModal", "setAspectRatio", "mouseMove"}
        => RegionValid(crop)

\* C2: while an aspect ratio r > 0 is set, the region has width / height = r
\* after each pointer-move of any drag.
C2_RatioHeld ==
    (lastOp.op = "mouseMove" /\ crop.aspectRatio # Null)
        => crop.width = RMul(crop.height, crop.aspectRatio)

\* C3: at most one job (compressPDF or createPdfFromImages) runs at a time,
\* and a job-start request made while isProcessing is set changes no state
\* and starts no run, then or later.
C3_OneJob ==
    /\ [](Len(runs) <= 1)
    /\ [][(isProcessing /\ lastOp'.op \in {"compressPDF", "compressPDF:rejected",
                                           "createPdfFromImages",
                                           "createPdfFromImages:rejected"})
            => /\ lastOp'.op \in {"compressPDF:rejected",
                                  "createPdfFromImages:rejected"}
               /\ UNCHANGED pdfVars]_vars

\* a createPdfFromImages request on a non-empty list is rejected because a
\* job is running
C3_Witness ==
    /\ lastOp.op = "createPdfFromImages:rejected"
    /\ Len(images) > 0
    /\ isProcessing
    /\ Len(runs) = 1

\* C4: compressedBlob and imagePdfBlob each hold nothing or the complete
\* output of a run that ended without an exception: every page of the
\* source PDF in order, or a page for every image the list held when the
\* run ended.
C4_BlobsComplete ==
    /\ compressedBlob # NoBlob =>
           /\ compressedBlob.of >= 1
           /\ compressedBlob.pages = [i \in 1..compressedBlob.of |-> i]
    /\ imagePdfBlob # NoBlob =>
           /\ Len(imagePdfBlob.pages) >= 1
           /\ Len(imagePdfBlob.pages) >= imagePdfBlob.of

\* an image-to-PDF run has thrown after it had assembled a page, and
\* imagePdfBlob holds nothing
C4_Witness ==
    /\ lastOp.op = "createPdfFromImages:failed"
    /\ lastOp.with >= 1
    /\ imagePdfBlob = NoBlob

\* C5: a pointer-down on the box or a handle while a drag is active is
\* rejected: dragType and the drag snapshot keep their values.
C5_SecondDownRejected ==
    [][(crop.isDragging /\ lastOp'.op = "mouseDown")
        => /\ crop'.dragType = crop.dragType
           /\ crop'.startMouseX = crop.startMouseX
           /\ crop'.startMouseY = crop.startMouseY
           /\ crop'.startX = crop.startX
           /\ crop'.startY = crop.startY
           /\ crop'.startWidth = crop.startWidth
           /\ crop'.startHeight = crop.startHeight]_vars

\* C6: when an image-to-PDF run completes, the document holds the images of
\* state.images, each once and in list order.
C6_PagesAreTheList ==
    lastOp.op = "createPdfFromImages:done" => imagePdfBlob.pages = images

\* C7: applyCrop on a region whose natural width or height is below 10
\* fails and leaves originalImage and the session unchanged; otherwise (a
\* size of exactly 10 included) it yields the crop command
\* (x / scale, y / scale, width / scale, height / scale).
C7_NaturalFloor ==
    [][lastOp'.op \in {"applyCrop", "applyCrop:tooSmall"}
        => LET w == RDiv(crop.width, crop.scale)
               h == RDiv(crop.height, crop.scale)
               cmd == [left |-> RDiv(crop.x, crop.scale),
                       top |-> RDiv(crop.y, crop.scale),
                       width |-> w, height |-> h]
           IN  IF RLt(w, R(10)) \/ RLt(h, R(10))
               THEN /\ lastOp'.op = "applyCrop:tooSmall"
                    /\ UNCHANGED <<originalImage, crop, modalOpen, pendingCrops>>
               ELSE /\ lastOp' = Op("applyCrop", cmd)
                    /\ pendingCrops' = pendingCrops \cup {cmd}
                    /\ UNCHANGED <<originalImage, crop, modalOpen>>]_vars

\* applyCrop has refused a region whose natural size is below 10
C7_Witness ==
    /\ lastOp.op = "applyCrop:tooSmall"
    /\ modalOpen
    /\ RLt(RDiv(crop.width, crop.scale), R(10))

\* C8: a resize pointer-move decides each axis on its own: the candidate
\* position and size of an axis are taken when size >= 20, position >= 0
\* and position + size <= bound, and the axis keeps its previous values
\* otherwise.
C8_AxesIndependent ==
    [][(lastOp'.op = "mouseMove" /\ crop.dragType \in Handles)
        => LET dx == RSub(R(lastOp'.with[1]), crop.startMouseX)
               dy == RSub(R(lastOp'.with[2]), crop.startMouseY)
               k == Candidate(crop, dx, dy)
               okX == /\ RGe(k.w, R(20)) /\ RGe(k.x, R(0))
                      /\ RLe(RAdd(k.x, k.w), crop.canvasWidth)
               okY == /\ RGe(k.h, R(20)) /\ RGe(k.y, R(0))
                      /\ RLe(RAdd(k.y, k.h), crop.canvasHeight)
           IN  /\ IF okX THEN crop'.x = k.x /\ crop'.width = k.w
                         ELSE crop'.x = crop.x /\ crop'.width = crop.width
               /\ IF okY THEN crop'.y = k.y /\ crop'.height = k.h
                         ELSE crop'.y = crop.y /\ crop'.height = crop.height]_vars

\* a resize pointer-move on a valid region whose candidate was refused on the
\* x axis and taken on the y axis, the height having changed
C8_Witness ==
    /\ lastOp.op = "mouseMove"
    /\ crop.dragType \in Handles
    /\ LET k == Candidate(crop, LastDx, LastDy)
       IN  /\ ~RLe(RAdd(k.x, k.w), crop.canvasWidth)
           /\ crop.width # k.w
           /\ crop.height = k.h
           /\ crop.height # crop.startHeight
    /\ RegionValid(crop)

\* C9: with an aspect ratio set, a corner-handle resize takes as primary the
\* dimension whose change from the drag snapshot is proportionally larger,
\* and derives the other dimension from it.
C9_LargerChangePrimary ==
    (lastOp.op = "mouseMove" /\ crop.dragType \in Corners
                             /\ crop.aspectRatio # Null)
        => LET raw == RawCandidate(crop, LastDx, LastDy)
               k == Candidate(crop, LastDx, LastDy)
               changeW == RMul(RAbs(RSub(raw.w, crop.startWidth)), crop.startHeight)
               changeH == RMul(RAbs(RSub(raw.h, crop.startHeight)), crop.startWidth)
           IN  /\ RGt(changeW, changeH) =>
                      k.w = raw.w /\ k.h = RDiv(raw.w, crop.aspectRatio)
               /\ RGt(changeH, changeW) =>
                      k.h = raw.h /\ k.w = RMul(raw.h, crop.aspectRatio)

\* C10: openCropModal sets scale = min(maxWidth / W, maxHeight / H, 1), the
\* bounds to (W * scale, H * scale), the aspect ratio to none and the region
\* to (20, 20, bounds width - 40, bounds height - 40) clamped to the bounds.
C10_OpenSeedsRegion ==
    lastOp.op = "openCropModal"
        => LET W == R(originalImage.width)
               H == R(originalImage.height)
               scale == RMin(RMin(RDiv(lastOp.with.maxWidth, W),
                                  RDiv(lastOp.with.maxHeight, H)), R(1))
               bw == RMul(W, scale)
               bh == RMul(H, scale)
               seed == ConstrainCropBox([crop EXCEPT !.x = R(20), !.y = R(20),
                                                     !.width = RSub(bw, R(40)),
                                                     !.height = RSub(bh, R(40))])
           IN  /\ crop.scale = scale
               /\ crop.canvasWidth = bw /\ crop.canvasHeight = bh
               /\ crop.aspectRatio = Null
               /\ crop.x = seed.x /\ crop.y = seed.y
               /\ crop.width = seed.width /\ crop.height = seed.height

\* C11: setAspectRatio with a ratio r only shrinks the region: when
\* width / height > r the width becomes height * r, otherwise the height
\* becomes width / r; after the call neither dimension is larger than before
\* and width / height = r.
C11_RatioShrinks ==
    [][(lastOp'.op = "setAspectRatio" /\ lastOp'.with # Null)
        => LET r == RDiv(R(lastOp'.with[1]), R(lastOp'.with[2]))
           IN  /\ IF RGt(RDiv(crop.width, crop.height), r)
                  THEN /\ crop'.width = RMul(crop.height, r)
                       /\ crop'.height = crop.height
                  ELSE /\ crop'.height = RDiv(crop.width, r)
                       /\ crop'.width = crop.width
               /\ RLe(crop'.width, crop.width)
               /\ RLe(crop'.height, crop.height)
               /\ crop'.width = RMul(crop'.height, r)]_vars

\* C12: setAspectRatio('free') sets aspectRatio to none and leaves x, y,
\* width and height of the region unchanged.
C12_FreeKeepsGeometry ==
    [][(lastOp'.op = "setAspectRatio" /\ lastOp'.with = Null)
        => /\ crop'.aspectRatio = Null
           /\ crop'.x = crop.x /\ crop'.y = crop.y
           /\ crop'.width = crop.width /\ crop'.height = crop.height]_vars

\* 'free' has been chosen on a region that a 16:9 ratio had shrunk before
C12_Witness ==
    /\ lastOp.op = "setAspectRatio"
    /\ lastOp.with = Null
    /\ crop.aspectRatio = Null
    /\ used.drags = 0
    /\ crop.width = R(60) /\ crop.height = <<135, 4>>

\* v clamped to [lo, hi]
Clamp(v, lo, hi) == IF RLt(v, lo) THEN lo ELSE IF RGt(v, hi) THEN hi ELSE v

\* C13: in translate mode each pointer-move sets the origin to
\* (startX + dx, startY + dy) clamped per axis to [0, bound - size], (dx, dy)
\* being the pointer offset from the pointer-down position, and leaves width
\* and height unchanged.
C13_TranslateClamped ==
    [][(lastOp'.op = "mouseMove" /\ crop.dragType = "move")
        => LET dx == RSub(R(lastOp'.with[1]), crop.startMouseX)
               dy == RSub(R(lastOp'.with[2]), crop.startMouseY)
           IN  /\ crop'.x = Clamp(RAdd(crop.startX, dx), R(0),
                                  RSub(crop.canvasWidth, crop.width))
               /\ crop'.y = Clamp(RAdd(crop.startY, dy), R(0),
                                  RSub(crop.canvasHeight, crop.height))
               /\ crop'.width = crop.width
               /\ crop'.height = crop.height]_vars

\* a translate pointer-move on a valid region that was stopped at the right
\* edge of the canvas
C13_Witness ==
    /\ lastOp.op = "mouseMove"
    /\ crop.dragType = "move"
    /\ RegionValid(crop)
    /\ crop.x = RSub(crop.canvasWidth, crop.width)
    /\ RGt(RAdd(crop.startX, LastDx), crop.x)

\* C14: after a drag has ended (pointer-up, or the crop modal closing) no
\* pointer-move changes x, y, width or height of the region until the next
\* accepted pointer-down: the end of a drag clears isDragging, only an
\* accepted pointer-down sets it, and a pointer-move without it changes
\* nothing.
C14_NoMoveAfterDragEnd ==
    /\ [](lastOp.op \in {"mouseUp", "closeCropModal"} => ~crop.isDragging)
    /\ [][(~crop.isDragging /\ crop'.isDragging) => lastOp'.op = "mouseDown"]_vars
    /\ [][(~crop.isDragging /\ lastOp'.op \in {"mouseMove", "mouseMove:ignored"})
            => /\ crop'.x = crop.x /\ crop'.y = crop.y
               /\ crop'.width = crop.width /\ crop'.height = crop.height]_vars

\* after a drag was ended by a pointer-up, the pointer has moved away from
\* where the drag began
C14_Witness ==
    /\ lastOp.op = "mouseMove:ignored"
    /\ used.drags = 1
    /\ ~crop.isDragging
    /\ crop.dragType = "null"
    /\ R(lastOp.with[1]) # crop.startMouseX

\* C15: a pointer-down on the crop box starts a drag in translate mode, a
\* pointer-down on a handle starts a resize drag from that handle, and in
\* both cases the snapshot is the region geometry and the pointer position of
\* that moment; a pointer-down on any other target starts no drag and leaves
\* the whole crop state unchanged.
C15_PointerDownTargets ==
    [][lastOp'.op \in {"mouseDown", "mouseDown:ignored"}
        => LET target == lastOp'.with[3]
           IN  IF target \in {"box"} \cup Handles
               THEN /\ lastOp'.op = "mouseDown"
                    /\ crop'.isDragging
                    /\ crop'.dragType = IF target = "box" THEN "move" ELSE target
                    /\ crop'.startMouseX = R(lastOp'.with[1])
                    /\ crop'.startMouseY = R(lastOp'.with[2])
                    /\ crop'.startX = crop.x /\ crop'.startY = crop.y
                    /\ crop'.startWidth = crop.width
                    /\ crop'.startHeight = crop.height
                    /\ crop'.x = crop.x /\ crop'.y = crop.y
                    /\ crop'.width = crop.width /\ crop'.height = crop.height
               ELSE /\ lastOp'.op = "mouseDown:ignored"
                    /\ crop' = crop]_vars

\* a pointer-down on a handle has taken the snapshot of a region that a
\* ratio had shrunk
C15_Witness ==
    /\ lastOp.op = "mouseDown"
    /\ lastOp.with[3] \in Handles
    /\ crop.dragType = lastOp.with[3]
    /\ crop.aspectRatio # Null
    /\ crop.startWidth = crop.width /\ crop.startHeight = crop.height
    /\ crop.startHeight # RSub(crop.canvasHeight, R(40))

\* C16: a drag is active only while the crop session is open: whenever the
\* crop modal is closed, by cancel or by a completed apply, isDragging is
\* false, and a session opens idle.
C16_DragOnlyWhileOpen ==
    /\ ~modalOpen => ~crop.isDragging
    /\ lastOp.op = "openCropModal" => ~crop.isDragging

\* a completed apply has closed the modal while a drag from handle 'se' was
\* active
C16_Witness ==
    /\ lastOp.op = "croppedImg.onload"
    /\ ~modalOpen
    /\ crop.dragType = "se"
    /\ ~crop.isDragging

\* C17: a crop session closed by cancel is discarded: once closeCropModal
\* has run, the load of a cropped image that the one applyCrop call so far
\* had requested before does not change originalImage.
C17_CancelDiscards ==
    [][(lastOp.op = "closeCropModal" /\ used.crops = 1
                                     /\ lastOp'.op = "croppedImg.onload")
        => originalImage' = originalImage]_vars

LegalButTooSmall ==
    /\ modalOpen
    /\ RegionValid(crop)
    /\ \/ RLt(RDiv(crop.width, crop.scale), R(10))
       \/ RLt(RDiv(crop.height, crop.scale), R(10))

\* C18, as stated: some reachable region is legal in display space (at
\* least 20 wide and high, within the bounds) and has a natural width or
\* height below 10, so that applyCrop rejects it.
C18_LegalRegionRejected == <>LegalButTooSmall

\* C18, amended: no region that is legal in display space falls below the
\* natural floor: the scale is at most 1, so the natural width and height of
\* a legal region are at least 20, and applyCrop rejects only regions that
\* are below the display floor.
C18_LegalNeverRejected ==
    /\ modalOpen =>
           /\ RGt(crop.scale, R(0)) /\ RLe(crop.scale, R(1))
           /\ RegionValid(crop) =>
                  /\ RGe(RDiv(crop.width, crop.scale), R(20))
                  /\ RGe(RDiv(crop.height, crop.scale), R(20))
    /\ lastOp.op = "applyCrop:tooSmall" => ~RegionValid(crop)

\* applyCrop has accepted a legal region of a downscaled image, whose natural
\* width is larger than its display width
C18_Witness ==
    /\ lastOp.op = "applyCrop"
    /\ RegionValid(crop)
    /\ RLt(crop.scale, R(1))
    /\ RGt(lastOp.with.width, crop.width)


\* the physical size of a source page given in points, in mm
PhysicalSize(page) ==
    [width |-> RMul(RDiv(page.width, R(72)), MmPerInch),
     height |-> RMul(RDiv(page.height, R(72)), MmPerInch)]

\* C19: every page that a rasterizing compression routine adds to its output
\* has the physical size of the source page it was rendered from
\* (width_pt / 72 * 25.4 mm by height_pt / 72 * 25.4 mm), whatever the DPI
\* and the quality.
C19_PageSizeKept ==
    settings.routine \in {"compressLossy", "compressPDF"} =>
        \A i \in 1..Len(jspdfDoc) :
            /\ jspdfDoc[i].width = PhysicalSize(jspdfDoc[i].src).width
            /\ jspdfDoc[i].height = PhysicalSize(jspdfDoc[i].src).height

\* the part of C19 that is about compressLossy alone
C19_LossyPageSizeKept ==
    settings.routine = "compressLossy" =>
        \A i \in 1..Len(jspdfDoc) :
            /\ jspdfDoc[i].width = PhysicalSize(jspdfDoc[i].src).width
            /\ jspdfDoc[i].height = PhysicalSize(jspdfDoc[i].src).height

\* the margin box of a page
MarginBox(pg) ==
    [left |-> R(margin), top |-> R(margin),
     right |-> RSub(pg.width, R(margin)), bottom |-> RSub(pg.height, R(margin))]

\* a sheet of a named page size carries its image as C20 describes
PlacedInMarginBox(sheet, pg) ==
    LET im == sheet.image
        box == MarginBox(pg)
        right == RAdd(im.x, im.width)
        bottom == RAdd(im.y, im.height)
    IN  /\ sheet.width = pg.width /\ sheet.height = pg.height
        /\ RGt(im.width, R(0)) /\ RGt(im.height, R(0))
        /\ RMul(im.width, R(sheet.src.height)) = RMul(im.height, R(sheet.src.width))
        /\ RGe(im.x, box.left) /\ RGe(im.y, box.top)
        /\ RLe(right, box.right) /\ RLe(bottom, box.bottom)
        /\ \/ im.x = box.left /\ right = box.right
           \/ im.y = box.top /\ bottom = box.bottom
        /\ RSub(im.x, box.left) = RSub(box.right, right)
        /\ RSub(im.y, box.top) = RSub(box.bottom, bottom)

\* C20: with a named page size (a4, letter, legal) every page is exactly the
\* named size (210 x 297 mm for a4), and its image keeps its aspect ratio,
\* lies inside the 10 mm margin box (190 x 277 mm for a4), touches the box on
\* at least one axis and is centered on both axes.
C20_ImageFittedAndCentered ==
    /\ pageSizes.a4 = [width |-> R(210), height |-> R(297)]
    /\ MarginBox(pageSizes.a4) =
           [left |-> R(10), top |-> R(10), right |-> R(200), bottom |-> R(287)]
    /\ (settings.routine = "createPdfFromImages" /\ settings.pageSize # "fit") =>
           \A i \in 1..Len(jspdfDoc) :
               PlacedInMarginBox(jspdfDoc[i], pageSizes[settings.pageSize])

\* a document of two a4 pages: a tall image that fills the height of the box
\* and is centered between its sides, and a wide image that fills the width
C20_Witness ==
    /\ settings.routine = "createPdfFromImages" /\ settings.pageSize = "a4"
    /\ Len(jspdfDoc) = 2
    /\ jspdfDoc[1].src = [width |-> 1000, height |-> 3000]
    /\ jspdfDoc[1].image.height = R(277)
    /\ RGt(jspdfDoc[1].image.x, R(margin))
    /\ jspdfDoc[2].src = [width |-> 3000, height |-> 100]
    /\ jspdfDoc[2].image.width = R(190)
    /\ RGt(jspdfDoc[2].image.y, R(margin))

\* the sheets of an image-to-PDF job
ImageSheets ==
    IF settings.routine = "createPdfFromImages"
    THEN {jspdfDoc[i] : i \in 1..Len(jspdfDoc)} ELSE {}

Capped(img) == img.width > maxDim \/ img.height > maxDim

\* the page and the place of the image follow from the natural size of the
\* image alone
GeometryFromSource(sheet) ==
    IF settings.pageSize = "fit"
    THEN /\ sheet.width = RMul(RDiv(R(sheet.src.width), R(96)), MmPerInch)
         /\ sheet.height = RMul(RDiv(R(sheet.src.height), R(96)), MmPerInch)
         /\ sheet.image = [x |-> R(0), y |-> R(0),
                           width |-> sheet.width, height |-> sheet.height]
    ELSE PlacedInMarginBox(sheet, pageSizes[settings.pageSize])

CompletesLarger ==
    /\ lastOp'.op = "compressPDF:done"
    /\ Len(runs) = 1
    /\ compressedSize' > runs[1].src.size

\* the step ends in the results, flagged as a size increase, without the
\* catch block
EndsInResultsAsLarger ==
    /\ view'.resultsSection = "shown" /\ view'.progressSection = "hidden"
    /\ compressedBlob' # NoBlob
    /\ view'.savingsBadge = "larger"
    /\ file' = file /\ originalSize' = originalSize

\* C22: a compression run that completes with an output larger than its
\* input ends in the results state, with the output blob retained and the
\* outcome flagged as a size increase, and not on the error path (no alert,
\* no removeFile).
C22_LargerIsNoError == [][CompletesLarger => EndsInResultsAsLarger]_vars

\* the same for the runs whose file is still the selected one when they
\* complete
C22_LargerIsNoErrorSameFile ==
    [][(CompletesLarger /\ runs[1].src = file) => EndsInResultsAsLarger]_vars

\* the list a without its element at index i (from 0)
Without(a, i) ==
    [k \in 1 .. Len(a) - 1 |-> IF k <= i THEN a[k] ELSE a[k + 1]]

\* b is a with the element at index s moved to index t
MovedTo(a, b, s, t) ==
    /\ Len(b) = Len(a)
    /\ s < Len(a) /\ t < Len(b)
    /\ b[t + 1] = a[s + 1]
    /\ Without(b, t) = Without(a, s)

\* C23: a drop on index t while the image of index s is dragged (s # t) moves
\* that image to index t: the list is a permutation of the same length, the
\* dragged image is at index t and the others keep their order; a drop with
\* s = t or without a drag leaves the list unchanged; removeImage(i) removes
\* element i alone and keeps the order of the rest.
C23_ReorderMovesOne ==
    [][/\ lastOp'.op = "drop" =>
              /\ draggedImageIndex # -1 /\ draggedImageIndex # lastOp'.with
              /\ MovedTo(images, images', draggedImageIndex, lastOp'.with)
       /\ lastOp'.op = "drop:ignored" =>
              /\ draggedImageIndex = -1 \/ draggedImageIndex = lastOp'.with
              /\ images' = images
       /\ lastOp'.op = "removeImage" =>
              /\ Len(images') = Len(images) - 1
              /\ images' = Without(images, lastOp'.with)]_vars

\* the same, for drops while the dragged index is an index of the list
C23_ReorderMovesOneInRange ==
    [][/\ (lastOp'.op = "drop" /\ draggedImageIndex < Len(images)) =>
              /\ draggedImageIndex # -1 /\ draggedImageIndex # lastOp'.with
              /\ MovedTo(images, images', draggedImageIndex, lastOp'.with)
       /\ lastOp'.op = "drop:ignored" =>
              /\ draggedImageIndex = -1 \/ draggedImageIndex = lastOp'.with
              /\ images' = images
       /\ lastOp'.op = "removeImage" =>
              /\ Len(images') = Len(images) - 1
              /\ images' = Without(images, lastOp'.with)]_vars

\* the files C24 calls invalid input
InvalidPdf(f) ==
    f = NoFile \/ f.type # "application/pdf" \/ f.size > 100 * 1024 * 1024
InvalidImage(f) ==
    \/ f = MissingFile
    \/ /\ f.type \notin {"image/png", "image/heic", "image/heif"}
       /\ ToLowerCase(f.name)[Len(f.name)] \notin {"heic", "heif"}

\* C24: a file selection is rejected exactly if the file is invalid input
\* (PDF tool: no file, a type other than application/pdf, more than 100 MB;
\* watermark tool: no file, neither an image nor HEIC), and a rejected
\* selection leaves the whole state of the tools unchanged; a PDF of exactly
\* 100 MB is accepted.
C24_RejectedChangesNothing ==
    [][/\ lastOp'.op \in {"handleFileSelect:notPdf", "handleFileSelect:tooLarge"} =>
              /\ InvalidPdf(lastOp'.with)
              /\ UNCHANGED <<cropVars, pdfVars, sheetVars, loadVars>>
       /\ lastOp'.op = "handleFileSelect" =>
              /\ ~InvalidPdf(lastOp'.with)
              /\ file' = lastOp'.with
       /\ lastOp'.op \in {"selectImage:missing", "selectImage:notImage"} =>
              /\ InvalidImage(lastOp'.with)
              /\ UNCHANGED <<cropVars, pdfVars, sheetVars, loadVars>>
       /\ lastOp'.op = "selectImage" =>
              /\ ~InvalidImage(lastOp'.with)
              /\ fileName' = lastOp'.with.name]_vars

\* the text file has just been rejected by the watermark tool, which holds
\* an image, while the PDF tool holds the PDF of exactly 100 MB it accepted
C24_Witness ==
    /\ lastOp.op = "selectImage:notImage"
    /\ originalImage # NoImage /\ fileName # <<>>
    /\ file # NoFile /\ file.size = 100 * 1024 * 1024

\* C25: when the HEIC conversion of a selected file throws, originalImage
\* and fileName are what they were before the file was selected.
C25_ConversionFailureRollsBack ==
    [][lastOp'.op = "selectImage:conversionFailed" =>
           \A l \in loads \ loads' :
               /\ originalImage' = l.before.originalImage
               /\ fileName' = l.before.fileName]_vars

\* the clean idle state of the PDF tool
CleanIdle ==
    /\ file = NoFile /\ compressedBlob = NoBlob
    /\ originalSize = 0 /\ compressedSize = 0
    /\ ~isProcessing

\* C26: when a PDF compression run fails, at whichever step, the tool is in
\* the clean idle state (file = null, compressedBlob = null, originalSize = 0,
\* compressedSize = 0, isProcessing = false), and no run is left that would
\* retry: the failed run is gone and none was started.
C26_FailureResets ==
    [][lastOp'.op = "compressPDF:failed" =>
           /\ CleanIdle'
           /\ Len(runs) = 1 /\ runs' = <<>>]_vars

\* a lossy run has failed after its first page was rendered, while the image
\* tool holds images
C26_Witness ==
    /\ lastOp.op = "compressPDF:failed"
    /\ lastOp.with = 1
    /\ Len(images) > 0

\* an image-to-PDF run fails in this step
CreateFails == lastOp'.op = "createPdfFromImages:failed" /\ Len(runs) = 1

\* C27: when an image-to-PDF run fails, at whichever image, state.images and
\* state.imagePdfBlob are as they were when the run started, isProcessing is
\* false, the progress view is hidden and the image list is shown, so that a
\* new run can be started.
C27_FailureRestoresPreRun ==
    [][CreateFails =>
           /\ images' = runs[1].src.images
           /\ imagePdfBlob' = runs[1].src.imagePdfBlob
           /\ ~isProcessing'
           /\ view'.imageProgressSection = "hidden"
           /\ ~imageListHidden'
           /\ ~CreateRejected(images', isProcessing')]_vars

\* what the failing step itself does: it leaves the list and the blob as
\* they are, clears isProcessing, hides the progress and shows the list
C27_FailureKeepsList ==
    [][CreateFails =>
           /\ images' = images
           /\ imagePdfBlob' = imagePdfBlob
           /\ ~isProcessing' /\ runs' = <<>>
           /\ view'.imageProgressSection = "hidden"
           /\ ~imageListHidden']_vars

\* a job has just ended, completed or thrown, and the next start request is
\* not refused for a running job
JobEnded ==
    /\ lastOp.op \in {"compressPDF:done", "compressPDF:failed",
                      "createPdfFromImages:done", "createPdfFromImages:failed"}
    /\ ~isProcessing /\ runs = <<>>
    /\ file # NoFile => ~CompressRejected(file, isProcessing)
    /\ Len(images) > 0 => ~CreateRejected(images, isProcessing)

\* C28: every started job (PDF compression or image-to-PDF) eventually ends,
\* completed or thrown, with isProcessing = false, provided every awaited
\* call eventually settles; a new start request is then accepted again.
C28_JobsEnd == isProcessing ~> JobEnded

\* a lossy compression of the two-page document has completed
C28_Witness ==
    /\ lastOp.op = "compressPDF:done" /\ lastOp.with = 2
    /\ ~isProcessing /\ runs = <<>>
    /\ Len(compressedBlob.pages) = 2

\* C29: every pixel of the width x height canvas lies in the square of side
\* 2 * diagonal around the centre of the canvas that the loops of the tiled
\* watermark range over, whatever the rotation about that centre.
C29_RectangleInTiledSquare ==
    lastOp.op = "renderTiledWatermark:pixel" => tiling.covered

\* a corner of the tall canvas, under a rotation that is no quarter turn
C29_Witness ==
    /\ lastOp.op = "renderTiledWatermark:pixel"
    /\ tiling.width = 10 /\ tiling.height = 30
    /\ tiling.pixel = <<R(10), R(30)>>
    /\ tiling.rotation.cos = RDiv(R(3), R(5))
    /\ tiling.at.x # R(5)
    /\ tiling.covered

\* the name without its final extension: without its last dot and what
\* follows it, if something follows it
Stem(name) ==
    LET dots == {k \in 1 .. Len(name) - 1 : name[k] = "."}
    IN  IF dots = {} \/ name[Len(name)] = "." THEN name
        ELSE LET last == CHOOSE k \in dots : \A j \in dots : j <= k
             IN  SubSeq(name, 1, last - 1)

\* C30: a compressed PDF is downloaded as the stem of the original name
\* followed by '_compressed.pdf', a watermarked image as the stem followed by
\* '_watermarked.png', for every original name.
C30_DownloadNames ==
    /\ download.tool = "pdf" =>
           download.name = Stem(download.from) \o <<"_compressed", ".", "pdf">>
    /\ download.tool = "watermark" =>
           download.name = Stem(download.from) \o <<"_watermarked", ".", "png">>

\* the half of it about the watermarked image
WatermarkedNameFromStem ==
    download.tool = "watermark" =>
        download.name = Stem(download.from) \o <<"_watermarked", ".", "png">>

\* the names of PDFs that end in '.pdf' and hold no other '.pdf'
CompressedNameFromStemOfPlainPdf ==
    (/\ download.tool = "pdf"
     /\ Len(download.from) >= 2
     /\ SubSeq(download.from, Len(download.from) - 1, Len(download.from)) = <<".", "pdf">>
     /\ ReplaceDotPdf(download.from) = SubSeq(download.from, 1, Len(download.from) - 2))
    => download.name = Stem(download.from) \o <<"_compressed", ".", "pdf">>

\* C31: in every state of the PDF tool a compressedBlob that is set comes
\* with a file that is set, and it is the output of compressing that file,
\* also when removeFile or a new selection happens while a compression run is
\* suspended at an await.
C31_BlobOfCurrentFile ==
    compressedBlob # NoBlob => (file # NoFile /\ compressedBlob.src = file)

\* the same for the runs during which the file is neither removed nor
\* replaced, stated for the step in which the run completes
C31_BlobOfTheFileRead ==
    [][lastOp'.op = "compressPDF:done" =>
          \E k \in 1..Len(runs) : runs' = DropRun(k) /\ compressedBlob'.src = runs[k].src]_vars

\* C32: whenever originalImage is set, fileName is the name of the file that
\* image was loaded from; of two files selected in succession the one
\* selected last is the one shown in the end, in whatever order their
\* conversions and loads complete.
C32_NameOfShownImage ==
    originalImage # NoImage =>
        \E f \in WatermarkFiles : f.img = originalImage /\ f.name = fileName

\* the same while no more than one file is on its way
C32_NameOfShownImageOneLoad ==
    [][(originalImage' # NoImage /\ lastOp'.op = "selectImage:loaded"
        /\ Cardinality(loads) = 1 /\ originalImage = NoImage
        /\ \A l \in loads : l.file.name = fileName)
       => \E f \in WatermarkFiles : f.img = originalImage' /\ f.name = fileName']_vars

\* the corner of the region x, y, w, h that lies opposite to the handle d
OppositeCorner(d, x, y, w, h) ==
    <<IF Includes(d, "w") THEN RAdd(x, w) ELSE x,
      IF Includes(d, "n") THEN RAdd(y, h) ELSE y>>

OppositeCornerKept ==
    OppositeCorner(crop.dragType, crop.x, crop.y, crop.width, crop.height)
        = OppositeCorner(crop.dragType, crop.startX, crop.startY,
                         crop.startWidth, crop.startHeight)

\* C33: during a resize drag from a corner handle, with or without an aspect
\* ratio, the corner of the region opposite to the dragged handle is at its
\* pointer-down position after every pointer-move.
C33_OppositeCornerFixed ==
    (lastOp.op = "mouseMove" /\ crop.dragType \in Corners) => OppositeCornerKept

\* the same for the drags without an aspect ratio and for the handle "se"
C33_OppositeCornerFixedFreeOrSE ==
    (/\ lastOp.op = "mouseMove" /\ crop.dragType \in Corners
     /\ crop.aspectRatio = Null \/ crop.dragType = "se")
    => OppositeCornerKept

\* the same for the pointer-moves that find the corner in place, which
\* leaves out the drags during which a ratio button moved it
OppositeCornerStays ==
    [][(/\ lastOp'.op = "mouseMove" /\ crop.dragType \in Corners
        /\ lastOp.op \in {"mouseDown", "mouseMove"}
        /\ OppositeCornerKept)
       => OppositeCornerKept']_vars

\* the pointer-move that ran last was at the pointer-down position
PointerBackAtStart ==
    /\ lastOp.op = "mouseMove"
    /\ R(lastOp.with[1]) = crop.startMouseX
    /\ R(lastOp.with[2]) = crop.startMouseY

RegionIsSnapshot ==
    /\ crop.x = crop.startX /\ crop.y = crop.startY
    /\ crop.width = crop.startWidth /\ crop.height = crop.startHeight

\* C34: within one drag the region is computed from the pointer-down
\* snapshot: whenever the pointer is back at its pointer-down position, the
\* region (x, y, width, height) is the geometry snapshotted at pointer-down,
\* for translate and for every resize handle, with or without a ratio.
C34_BackAtStartIsSnapshot == PointerBackAtStart => RegionIsSnapshot

\* the same for the drags that start on a region of at least 20 by 20 inside
\* the canvas, with the ratio of the snapshot unchanged since pointer-down
C34_BackAtStartIsSnapshotValidStart ==
    (/\ PointerBackAtStart
     /\ RegionValid([crop EXCEPT !.x = crop.startX, !.y = crop.startY,
                                 !.width = crop.startWidth,
                                 !.height = crop.startHeight])
     /\ crop.aspectRatio # Null =>
            crop.startWidth = RMul(crop.startHeight, crop.aspectRatio))
    => RegionIsSnapshot

\* a preview is open on a document, no call is suspended and no render has
\* thrown
PreviewAtRest ==
    /\ ~previewModalHidden /\ previewPdf # NoBlob
    /\ previews = <<>> /\ ~previewLog.rejected

\* C35: once page navigation has stopped and all pending renders have
\* finished, the preview canvas shows page currentPage, for every
\* interleaving of prevPage and nextPage with the awaits of
\* renderPreviewPage.
C35_CanvasShowsCurrentPage ==
    PreviewAtRest => previewCanvas = [doc |-> previewPdf, page |-> currentPage]

\* the same for the renders that start when no other call is suspended
C35_CanvasShowsPageOfLoneRender ==
    [][(/\ lastOp'.op = "renderPreviewPage:done" /\ Len(previews) = 1
        /\ previews[1].clean /\ previews[1].doc = previewPdf
        /\ previews[1].page = currentPage)
       => previewCanvas' = [doc |-> previewPdf', page |-> currentPage']]_vars

\* the page is in range, and a preview that has just opened on a document
\* is at page 1 of it
PageInRange ==
    /\ 1 <= currentPage /\ currentPage <= totalPages
    /\ lastOp.op = "openPreview:loaded" =>
           currentPage = 1 /\ totalPages = Len(previewPdf.pages)

\* prevPage at page 1 and nextPage at the last page change nothing
EndsChangeNothing ==
    /\ (lastOp'.op \in {"prevPage", "prevPage:ignored"} /\ currentPage = 1)
           => UNCHANGED <<previewPdf, currentPage, totalPages, previewModalHidden,
                          previewCanvas, previews>>
    /\ (lastOp'.op \in {"nextPage", "nextPage:ignored"} /\ currentPage = totalPages)
           => UNCHANGED <<previewPdf, currentPage, totalPages, previewModalHidden,
                          previewCanvas, previews>>

\* C39: in every state of the preview 1 <= currentPage <= totalPages;
\* prevPage at page 1 and nextPage at page totalPages change nothing, and
\* a preview that opens on a document sets currentPage to 1.
C39_PageInRange == []PageInRange /\ [][EndsChangeNothing]_vars

\* a second preview is open, on the one-page document, and nextPage was
\* pressed on its only page
C39_Witness ==
    /\ lastOp.op = "nextPage:ignored"
    /\ currentPage = 1 /\ totalPages = 1
    /\ previewPdf # NoBlob /\ ~previewModalHidden
    /\ previewLog.opens = 2

\* at rest the canvas shows a whole page that is not page currentPage
WholeOtherPageAtRest ==
    /\ PreviewAtRest
    /\ previewCanvas.doc = previewPdf
    /\ previewCanvas.page # 0 /\ previewCanvas.page # currentPage

\* the images of one addImages call stand in the order of its files
InFileOrder ==
    \A p, q \in 1..Len(images) :
        (p < q /\ batchOf[images[p]] = batchOf[images[q]]) => images[p] < images[q]

\* C36: the images added in one addImages call appear in state.images in
\* the order of the files of that call, in whatever order their file reads
\* complete.
C36_CallOrderKept == InFileOrder

\* C37: showResults reports the outcome as larger only if
\* compressedSize >= originalSize, and as smaller whenever
\* compressedSize < originalSize, for all positive sizes.
C37_LargerOnlyIfNotSmaller ==
    lastOp.op = "showResults" =>
        /\ view.savingsBadge = "larger" => compressedSize >= originalSize
        /\ compressedSize < originalSize => view.savingsBadge = "smaller"

\* what holds instead: an output that is not smaller is reported as larger,
\* and an output smaller by half a percent or more as smaller
LargerOrEqualIsLarger ==
    lastOp.op = "showResults" =>
        /\ compressedSize >= originalSize => view.savingsBadge = "larger"
        /\ 200 * (originalSize - compressedSize) >= originalSize
               => view.savingsBadge = "smaller"
        /\ (compressedSize < originalSize
            /\ 200 * (originalSize - compressedSize) < originalSize)
               => view.savingsBadge = "larger"

TilesRunning == tiling.pc = "fill"
TilesDone == tiling.pc = "done"
TilesRunningWithSpacing == tiling.pc = "fill" /\ tiling.spacing > 0

\* C38: renderTiledWatermark terminates for every non-blank text, every
\* fontSize >= 0, tileSpacing in 0..100 and measured text width >= 0: both
\* tiling loops finish after finitely many steps.
C38_TilingTerminates == TilesRunning ~> TilesDone

\* the same for the settings that give a positive spacing
C38_TilingTerminatesWithSpacing == TilesRunningWithSpacing ~> TilesDone

====
